---- MODULE Spec2Model ----
(***************************************************************************)
(* Model of the caseload job engine of                                     *)
(* src/routes/API/engagement/caseload/+server.ts: the in-memory job        *)
(* registry, the POST/GET handlers and stepJob with its suspension points  *)
(* (every await of an outbound Intercom call).                             *)
(*                                                                         *)
(* Time: `now` is Date.now() in milliseconds counted from the start of the *)
(* process; the code only compares and subtracts Date.now() values, so the *)
(* origin is immaterial.  Unix seconds are EpochUnix + now \div 1000.       *)
(*                                                                         *)
(* Steps of one job are issued one at a time (the client's polling loop    *)
(* awaits each response); cancel, cleanup, status and result requests may  *)
(* arrive at any moment, also while a step is suspended.                   *)
(***************************************************************************)
EXTENDS Integers, Sequences, FiniteSets, TLC

VARIABLES
  now,        \* Date.now(), ms since process start
  ticks,      \* number of clock advances so far (bounds the model)
  world,      \* what the remote API serves: conversation pages, unknown ids
  jobs,       \* the `jobs` Map: the set of job ids in the registry
  created,    \* ids ever handed out by randomUUID()
  job,        \* job id -> CaseloadJobState (objects outlive registry removal)
  pc,         \* job id -> position of its running stepJob ("idle" if none)
  loc,        \* job id -> locals of its running stepJob
  ev,         \* the last event: the request handled or call ended, and its response
  lastStep,   \* job id -> (status, phase, done, error) of its last step response
  hist,       \* job id -> observations used by the properties
  client,     \* the page of +page.svelte: its runs, its requests in flight
  pool        \* one call of fetchContactsByIds of lib/server/intercom.ts

vars == <<now, ticks, world, jobs, created, job, pc, loc, ev, lastStep, hist, client, pool>>

----------------------------------------------------------------------------
(* Bounds *)

MaxTicks == 2

(* Clock advances allowed in the long runs that outlive a cache entry. *)
CacheAdvances == 12

(* The time a slow outbound call takes in the long runs. *)
SlowCallMs == 15000

(* The delay, in seconds, a rate-limited answer advises in Retry-After. *)
RetryAfterSeconds == 60

(* A delay advised in Retry-After that is longer than JOB_TTL_MS. *)
LongRetryAfterSeconds == 700

JobIds == {"j1", "j2"}

(* Program constants *)

SECONDS_PER_DAY == 86400
MAX_RETRIES == 3
STEP_BUDGET_MS == 20000
STEP_SAFETY_MS == 1250
MIN_TIME_TO_START_REQUEST_MS == 4500
JOB_TTL_MS == 600000
ADMIN_CACHE_TTL_MS == 600000
CONTACT_CACHE_TTL_MS == 3600000
CONTACT_CHUNK_SIZE == 15
SESSION_CHANNELS == {"Phone", "Video Conference", "Email", "Chat"}

defaultTimeout == 18000
maxTimeout == 25000
minTimeout == 4000
deadlineBuffer == 500
AbortLimit == 3
defaultLimit == 500
maxLookbackDays == 365
maxLimit == 5000

(* Wall clock (unix seconds) at process start: day 100. *)
EpochUnix == 100 * SECONDS_PER_DAY

(* Elapsed-time choices for the environment. *)
TickSizes == {7500, 595000}

----------------------------------------------------------------------------
(* Small helpers *)

Min(a, b) == IF a < b THEN a ELSE b
Max(a, b) == IF a > b THEN a ELSE b

Range(s) == {s[i] : i \in 1..Len(s)}

NoError == "(none)"
NoCursor == 0
NoCache == [fetchedAtMs |-> -1]
NoSession == [memberId |-> 0, coachId |-> "", channel |-> "", time |-> 0]

(* A request parameter or response header as Number() reads it: not sent, a value that is   *)
(* no number (NaN), or a number.                                           *)
NoParam == [kind |-> "absent", n |-> 0]
NaN == [kind |-> "nan", n |-> 0]
Num(n) == [kind |-> "num", n |-> n]

----------------------------------------------------------------------------
(* The remote API.  A world fixes the chain of conversation pages served   *)
(* by /conversations/search (page k carries the cursor of page k+1, the   *)
(* last page carries none) and the contact ids /contacts/search never      *)
(* returns.                                                                *)

Conv(m, coach, ch, t) == [memberId |-> m, coachId |-> coach, channel |-> ch, time |-> t]

DayAgo(d) == EpochUnix - d * SECONDS_PER_DAY

WorldSmall ==
  [pages |-> << <<Conv(1, "a1", "Phone", DayAgo(3)),
                  Conv(2, "", "Chat", DayAgo(40)),
                  Conv(1, "a2", "Email", DayAgo(1)),
                  Conv(3, "a1", "SMS", DayAgo(2))>> >>,
   notReturned |-> {2}]

WorldEmptyPage ==
  [pages |-> << <<>>, <<Conv(1, "a1", "Video Conference", DayAgo(60))>> >>,
   notReturned |-> {}]

WorldTwoChunks ==
  [pages |-> << [i \in 1..(CONTACT_CHUNK_SIZE + 1) |-> Conv(i, "a1", "Phone", DayAgo(i))] >>,
   notReturned |-> {}]

Worlds == {WorldSmall, WorldEmptyPage, WorldTwoChunks}

(* The conversations of WorldSmall served as two pages. *)
WorldSplit ==
  [pages |-> << <<Conv(1, "a1", "Phone", DayAgo(3)),
                  Conv(2, "", "Chat", DayAgo(40))>>,
                <<Conv(1, "a2", "Email", DayAgo(1)),
                  Conv(3, "a1", "SMS", DayAgo(2))>> >>,
   notReturned |-> {2}]

RateWorlds == {WorldSmall, WorldSplit, WorldEmptyPage}

(* A page of conversations none of which is a session. *)
WorldNoSessions ==
  [pages |-> << <<Conv(0, "a1", "Phone", DayAgo(3)),
                  Conv(4, "a1", "Other", DayAgo(2))>> >>,
   notReturned |-> {}]

(* Two chunks of members, one of them unknown to /contacts/search. *)
WorldCache == [WorldTwoChunks EXCEPT !.notReturned = {2}]


(* Ages, in seconds at process start, of a last session: one second       *)
(* around each bucket boundary, just closed, and long ago.                 *)
BoundaryAges ==
  {d * SECONDS_PER_DAY + o : d \in {7, 28, 56}, o \in {-1, 0, 1}} \cup {1, 100 * SECONDS_PER_DAY - 1}

(* Two members whose only sessions are a and b seconds old. *)
WorldAged(a, b) ==
  [pages |-> << <<Conv(1, "a1", "Phone", EpochUnix - a),
                  Conv(2, "", "Chat", EpochUnix - b)>> >>,
   notReturned |-> {}]

(* The response of /conversations/search to a request carrying `cursor`. *)
SearchPage(w, cursor) ==
  LET k == IF cursor = NoCursor THEN 1 ELSE cursor
  IN [conversations |-> w.pages[k],
      nextCursor |-> IF k < Len(w.pages) THEN k + 1 ELSE NoCursor]

(* The contacts /contacts/search returns for a chunk of ids. *)
SearchContacts(w, chunk) == Range(chunk) \ w.notReturned

(* Outcomes of one intercomRequest as its caller sees them: a parsed      *)
(* response, an error named AbortError (the timer fired), any other error. *)
Outcomes == {"ok", "abort", "fatal"}

(* Answers with status 429: without a Retry-After header, with one        *)
(* advising RetryAfterSeconds or LongRetryAfterSeconds, and with one that   *)
(* carries an HTTP date.                                                   *)
RateOutcomes == {"rate", "rateAdvised", "rateLong", "rateDated"}

(* res.headers.get('Retry-After') of a 429 answer, as Number() reads it. *)
RetryAfter(outcome) ==
  IF outcome = "rateAdvised" THEN Num(RetryAfterSeconds)
  ELSE IF outcome = "rateLong" THEN Num(LongRetryAfterSeconds)
  ELSE IF outcome = "rateDated" THEN NaN
  ELSE NoParam

(* Answers with another status that is not 2xx: with a body text that     *)
(* does not hold the word "aborted", and with one that does.               *)
ErrorOutcomes == {"fatal", "fatalAborted"}

AbortMessage == "Intercom request aborted"
FatalMessage == "Intercom 500"
RateMessage == "Intercom 429"

(* The message of the error fetch rejects with when the timer aborts it,  *)
(* and the message built at line 369 for a non-2xx answer whose body text  *)
(* holds the word "aborted".                                               *)
FetchAbortMessage == "This operation was aborted"
AbortedBodyMessage == "Intercom 500: request aborted"

(* The messages m for which m.toLowerCase().includes('aborted'). *)
SaysAborted == {AbortMessage, FetchAbortMessage, AbortedBodyMessage}

(* The error that reaches the catch block of intercomRequest (line 373):  *)
(* the rejection of fetch, or the Error thrown at line 369 inside the try. *)
Thrown(outcome) ==
  IF outcome = "abort" THEN [name |-> "AbortError", message |-> FetchAbortMessage]
  ELSE IF outcome \in RateOutcomes THEN [name |-> "Error", message |-> RateMessage]
  ELSE IF outcome = "fatalAborted" THEN [name |-> "Error", message |-> AbortedBodyMessage]
  ELSE [name |-> "Error", message |-> FatalMessage]

isAbortError(e) == e.name = "AbortError" \/ e.message \in SaysAborted

(* The error intercomRequest throws for an outcome it does not retry      *)
(* (lines 373-400).                                                        *)
ErrorOf(outcome) ==
  LET e == Thrown(outcome)
  IN IF isAbortError(e) THEN [name |-> "AbortError", message |-> AbortMessage] ELSE e

----------------------------------------------------------------------------
(* Pure helpers of the job engine *)

timeLeftMs(deadlineMs, t) == deadlineMs - t

(* intercomRequest: the effective timeout of a call started at t. *)
EffectiveTimeout(deadlineMs, t) ==
  LET t1 == Min(defaultTimeout, Max(minTimeout, timeLeftMs(deadlineMs, t) - deadlineBuffer))
  IN Min(maxTimeout, Max(minTimeout, t1))

parseSessionFromConversation(conv) ==
  IF conv.channel \notin SESSION_CHANNELS THEN NoSession
  ELSE IF conv.memberId = 0 THEN NoSession
  ELSE IF conv.time = 0 THEN NoSession
  ELSE conv

(* A set that takes no second element. *)
SetAdd_OnlyFirst(ids, m) == IF ids = <<>> THEN <<m>> ELSE ids

(* Set.prototype.add on a Set kept in insertion order (line 610). *)
SetAdd(ids, m) == IF m \in Range(ids) THEN ids ELSE Append(ids, m)

(* A variant that keeps the first time it saw for a member. *)
upsertMemberAgg_KeepsFirst(jr, s) ==
  LET old == IF s.memberId \in DOMAIN jr.memberAgg
             THEN jr.memberAgg[s.memberId]
             ELSE [lastSessionAt |-> s.time, channels |-> {}, coachIds |-> {}]
      agg == [lastSessionAt |-> old.lastSessionAt,
              channels |-> old.channels \cup {s.channel},
              coachIds |-> IF s.coachId # "" THEN old.coachIds \cup {s.coachId} ELSE old.coachIds]
  IN [jr EXCEPT
        !.memberAgg = [m \in (DOMAIN jr.memberAgg) \cup {s.memberId} |->
                         IF m = s.memberId THEN agg ELSE jr.memberAgg[m]],
        !.memberIds = SetAdd(jr.memberIds, s.memberId)]

upsertMemberAgg(jr, s) ==
  LET old == IF s.memberId \in DOMAIN jr.memberAgg
             THEN jr.memberAgg[s.memberId]
             ELSE [lastSessionAt |-> 0, channels |-> {}, coachIds |-> {}]
      agg == [lastSessionAt |-> IF s.time > old.lastSessionAt THEN s.time ELSE old.lastSessionAt,
              channels |-> old.channels \cup {s.channel},
              coachIds |-> IF s.coachId # "" THEN old.coachIds \cup {s.coachId} ELSE old.coachIds]
  IN [jr EXCEPT
        !.memberAgg = [m \in (DOMAIN jr.memberAgg) \cup {s.memberId} |->
                         IF m = s.memberId THEN agg ELSE jr.memberAgg[m]],
        !.memberIds = SetAdd(jr.memberIds, s.memberId)]

(* The for-loop of stepJob over one page of conversations. *)
RECURSIVE FoldConversations(_, _)
FoldConversations(jr, convs) ==
  IF convs = <<>> THEN jr
  ELSE LET s == parseSessionFromConversation(Head(convs))
       IN IF s = NoSession THEN FoldConversations(jr, Tail(convs))
          ELSE FoldConversations(
                 upsertMemberAgg([jr EXCEPT !.sessions = Append(jr.sessions, s),
                                            !.sessionsCount = jr.sessionsCount + 1], s),
                 Tail(convs))

(* A variant for which an entry is already expired at expiresAtMs. *)
IsCached_ExpiresEarly(cache, id, t) == id \in DOMAIN cache /\ ~(t >= cache[id].expiresAtMs)

(* getCachedContact: a hit iff the entry exists and has not expired. *)
IsCached(cache, id, t) == id \in DOMAIN cache /\ ~(t > cache[id].expiresAtMs)

(* The side effect of getCachedContact over the ids read: an expired entry *)
(* that is read is deleted.                                                *)
EvictRead(cache, ids, t) ==
  [id \in {x \in DOMAIN cache : ~(x \in ids /\ t > cache[x].expiresAtMs)} |-> cache[id]]

(* A variant that stores the returned contacts and no placeholder. *)
StoreChunk_NoPlaceholder(cache, chunk, returned, t) ==
  [id \in (DOMAIN cache) \cup (Range(chunk) \cap returned) |->
     IF id \in Range(chunk)
     THEN [expiresAtMs |-> t + CONTACT_CACHE_TTL_MS, notFound |-> FALSE]
     ELSE cache[id]]

(* setCachedContact / setNotFoundContact for the answer to one chunk. *)
StoreChunk(cache, chunk, returned, t) ==
  [id \in (DOMAIN cache) \cup Range(chunk) |->
     IF id \in Range(chunk)
     THEN [expiresAtMs |-> t + CONTACT_CACHE_TTL_MS, notFound |-> id \notin returned]
     ELSE cache[id]]

(* Order-preserving filter of a sequence of ids. *)
RECURSIVE FilterMissing(_, _, _)
FilterMissing(ids, cache, t) ==
  IF ids = <<>> THEN <<>>
  ELSE IF IsCached(cache, Head(ids), t) THEN FilterMissing(Tail(ids), cache, t)
       ELSE <<Head(ids)>> \o FilterMissing(Tail(ids), cache, t)

MissingCount(jr, t) == Cardinality({id \in Range(jr.memberIds) : ~IsCached(jr.contactCache, id, t)})

(* A variant whose first bucket ends just before 7 days. *)
computeBuckets_StrictFirst(daysTimes) ==
  [bucket_1 |-> daysTimes < 7 * SECONDS_PER_DAY,
   bucket_2 |-> daysTimes >= 7 * SECONDS_PER_DAY /\ daysTimes <= 28 * SECONDS_PER_DAY,
   bucket_3 |-> daysTimes > 28 * SECONDS_PER_DAY /\ daysTimes <= 56 * SECONDS_PER_DAY,
   bucket_4 |-> daysTimes > 56 * SECONDS_PER_DAY]

computeBuckets(daysTimes) ==
  \* daysTimes is daysSince * SECONDS_PER_DAY (the code divides, the model compares products)
  [bucket_1 |-> daysTimes <= 7 * SECONDS_PER_DAY,
   bucket_2 |-> daysTimes > 7 * SECONDS_PER_DAY /\ daysTimes <= 28 * SECONDS_PER_DAY,
   bucket_3 |-> daysTimes > 28 * SECONDS_PER_DAY /\ daysTimes <= 56 * SECONDS_PER_DAY,
   bucket_4 |-> daysTimes > 56 * SECONDS_PER_DAY]

----------------------------------------------------------------------------
(* Job state *)

EmptyMap == [x \in {} |-> 0]

NoSummary == [bucket_1 |-> 0, bucket_2 |-> 0, bucket_3 |-> 0, bucket_4 |-> 0]

(* createJob: the CaseloadJobState stored for a new id at time t. *)
createJob(t) ==
  [status |-> "queued",
   phase |-> "conversations",
   createdAtMs |-> t,
   updatedAtMs |-> t,
   error |-> NoError,
   startingAfter |-> NoCursor,
   pagesFetched |-> 0,
   conversationsFetched |-> 0,
   sessionsCount |-> 0,
   memberIds |-> <<>>,
   memberAgg |-> EmptyMap,
   sessions |-> <<>>,
   adminCache |-> NoCache,
   contactCache |-> EmptyMap,
   consecutiveAbortErrors |-> 0,
   finalized |-> FALSE,
   generatedAt |-> 0,
   totalMembers |-> 0,
   summary |-> NoSummary,
   members |-> <<>>]

Terminal(st) == st \in {"complete", "error", "cancelled"}

(* Locals of a running stepJob; NoLoc when no step of the job is running. *)
(* reqStart is when the pending intercomRequest was first called, attempt  *)
(* its `attempt`, callStart and timeoutMs the start and timer of the fetch  *)
(* in flight, wakeAt the end of its backoff sleep (0 when not sleeping).    *)
NoLoc == [deadlineMs |-> 0, callStart |-> 0, timeoutMs |-> 0, reqCursor |-> NoCursor,
          missing |-> <<>>, i |-> 0, nowUnix |-> 0,
          reqStart |-> 0, attempt |-> 0, wakeAt |-> 0]

(* Response bodies, reduced to the fields the properties read; -1 and     *)
(* NoError stand for a key the body does not carry.                        *)
NoSnap == [code |-> 0, status |-> "", phase |-> "", done |-> FALSE, error |-> NoError,
           cursor |-> -1, pagesFetched |-> -1, conversationsFetched |-> -1,
           sessionsCount |-> -1, uniqueMembers |-> -1, missingContacts |-> -1]

ProgressSnap(jr, t) ==
  [code |-> 200, status |-> jr.status, phase |-> jr.phase,
   done |-> jr.status = "complete", error |-> NoError,
   cursor |-> jr.startingAfter, pagesFetched |-> jr.pagesFetched,
   conversationsFetched |-> jr.conversationsFetched,
   sessionsCount |-> jr.sessionsCount,
   uniqueMembers |-> Len(jr.memberIds),
   missingContacts |-> MissingCount(jr, t)]

ErrorSnap(jr) ==
  [NoSnap EXCEPT !.code = 200, !.status = jr.status, !.phase = jr.phase,
                 !.done = TRUE, !.error = jr.error]

TerminalSnap(jr) ==
  [NoSnap EXCEPT !.code = 200, !.status = jr.status, !.phase = jr.phase,
                 !.done = TRUE, !.error = jr.error]

CodeSnap(c) == [NoSnap EXCEPT !.code = c]

----------------------------------------------------------------------------
(* stepJob.  Each operator is the synchronous code from one point of       *)
(* stepJob up to the next await or the return; its value is the job state  *)
(* it leaves, where the step is suspended (pc, loc) and, if the step       *)
(* returned (pc = "idle"), the response body (out).                        *)

Suspend(jr, l, p, t) ==
  [job |-> jr, pc |-> p,
   loc |-> [l EXCEPT !.callStart = t, !.timeoutMs = EffectiveTimeout(l.deadlineMs, t),
                     !.reqStart = t, !.attempt = 1, !.wakeAt = 0],
   out |-> NoSnap]

(* Lines 827-858: the normal end of a step. *)
StepReturn(jr, l, t) ==
  LET jr1 == [jr EXCEPT !.updatedAtMs = t,
                        !.contactCache = EvictRead(@, Range(jr.memberIds), t)]
  IN [job |-> jr1, pc |-> "idle", loc |-> NoLoc, out |-> ProgressSnap(jr1, t)]

(* A catch block that forgets to store the message on the job. *)
StepCatch_DropsMessage(jr, l, e, t) ==
  LET jr1 == [jr EXCEPT !.status = "error", !.phase = "complete", !.updatedAtMs = t]
  IN [job |-> jr1, pc |-> "idle", loc |-> NoLoc, out |-> [NoSnap EXCEPT
        !.code = 200, !.status = jr1.status, !.phase = jr1.phase, !.done = TRUE,
        !.error = e.message]]

(* Lines 859-876: the catch block of stepJob. *)
StepCatch(jr, l, e, t) ==
  LET jr1 == [jr EXCEPT !.status = "error", !.phase = "complete",
                        !.error = e.message, !.updatedAtMs = t]
  IN [job |-> jr1, pc |-> "idle", loc |-> NoLoc, out |-> ErrorSnap(jr1)]

AdminCacheHit(jr, t) ==
  jr.adminCache # NoCache /\ t - jr.adminCache.fetchedAtMs < ADMIN_CACHE_TTL_MS

(* Lines 762-795: one row per aggregated member, in insertion order. *)
RECURSIVE MemberRows(_, _, _, _)
MemberRows(ids, jr, nowUnix, t) ==
  IF ids = <<>> THEN <<>>
  ELSE LET m == Head(ids)
           agg == jr.memberAgg[m]
           d == nowUnix - agg.lastSessionAt
           row == [memberId |-> m,
                   hydrated |-> IsCached(jr.contactCache, m, t) /\ ~jr.contactCache[m].notFound,
                   coachIds |-> agg.coachIds,
                   channelsUsed |-> agg.channels,
                   lastSessionAt |-> agg.lastSessionAt,
                   buckets |-> computeBuckets(d)]
       IN IF agg.lastSessionAt = 0 THEN MemberRows(Tail(ids), jr, nowUnix, t)
          ELSE <<row>> \o MemberRows(Tail(ids), jr, nowUnix, t)

CountBucket(rows, b) == Cardinality({k \in 1..Len(rows) : rows[k].buckets[b]})

(* A finalize that stores the result and leaves the status as it is. *)
FinalizeBody_KeepsStatus(jr, l, t) ==
  LET rows == MemberRows(jr.memberIds, jr, l.nowUnix, t)
      jr1 == [jr EXCEPT
                !.contactCache = EvictRead(@, DOMAIN jr.memberAgg, t),
                !.members = rows,
                !.summary = [b \in DOMAIN NoSummary |-> CountBucket(rows, b)],
                !.totalMembers = Len(rows),
                !.generatedAt = l.nowUnix,
                !.finalized = TRUE,
                !.phase = "complete"]
  IN StepReturn(jr1, l, t)

(* Lines 762-825: finalize after the admin map is available. *)
FinalizeBody(jr, l, t) ==
  LET rows == MemberRows(jr.memberIds, jr, l.nowUnix, t)
      jr1 == [jr EXCEPT
                !.contactCache = EvictRead(@, DOMAIN jr.memberAgg, t),
                !.members = rows,
                !.summary = [b \in DOMAIN NoSummary |-> CountBucket(rows, b)],
                !.totalMembers = Len(rows),
                !.generatedAt = l.nowUnix,
                !.finalized = TRUE,
                !.phase = "complete",
                !.status = "complete"]
  IN StepReturn(jr1, l, t)

(* Lines 757-760: phase 3 up to fetchAdminsCached. *)
PhaseFinalize(jr, l, t) ==
  IF jr.phase = "finalize"
  THEN LET l1 == [l EXCEPT !.nowUnix = EpochUnix + (t \div 1000)]
       IN IF AdminCacheHit(jr, t) THEN FinalizeBody(jr, l1, t)
          ELSE Suspend(jr, l1, "fin_admins", t)
  ELSE StepReturn(jr, l, t)

(* A variant that advances to finalize whatever is still missing. *)
HydrateEnd_IgnoresRemaining(jr, l, t) ==
  LET jr1 == [jr EXCEPT !.contactCache = EvictRead(@, Range(jr.memberIds), t),
                        !.consecutiveAbortErrors = 0]
  IN PhaseFinalize([jr1 EXCEPT !.phase = "finalize"], l, t)

(* Lines 552-558 and 725-738: hydrateContactsByIds returns. *)
HydrateEnd(jr, l, t) ==
  LET jr1 == [jr EXCEPT !.contactCache = EvictRead(@, Range(jr.memberIds), t),
                        !.consecutiveAbortErrors = 0]
      remaining == MissingCount(jr1, t)
      jr2 == IF remaining = 0 THEN [jr1 EXCEPT !.phase = "finalize"] ELSE jr1
  IN PhaseFinalize(jr2, l, t)

ChunkOf(l) == SubSeq(l.missing, l.i + 1, Min(l.i + CONTACT_CHUNK_SIZE, Len(l.missing)))

(* Lines 489-509: the head of the chunk loop, up to the request. *)
ChunkLoop(jr, l, t) ==
  IF l.i < Len(l.missing)
  THEN IF timeLeftMs(l.deadlineMs, t) < MIN_TIME_TO_START_REQUEST_MS
       THEN HydrateEnd(jr, l, t)
       ELSE Suspend(jr, l, "contacts", t)
  ELSE HydrateEnd(jr, l, t)

(* Lines 719-724 and 480-483: phase 2 up to the first chunk request. *)
PhaseContacts(jr, l, t) ==
  IF jr.phase = "contacts"
  THEN LET missing == FilterMissing(jr.memberIds, jr.contactCache, t)
           jr1 == [jr EXCEPT !.contactCache = EvictRead(@, Range(jr.memberIds), t)]
       IN IF missing = <<>>
          THEN PhaseFinalize([jr1 EXCEPT !.consecutiveAbortErrors = 0,
                                         !.phase = "finalize"], l, t)
          ELSE ChunkLoop(jr1, [l EXCEPT !.missing = missing, !.i = 0], t)
  ELSE PhaseFinalize(jr, l, t)

(* A paging loop that moves on to the contacts when its time is up. *)
ConvLoop_AdvancesWhenLate(jr, l, t) ==
  IF timeLeftMs(l.deadlineMs, t) >= MIN_TIME_TO_START_REQUEST_MS
  THEN Suspend(jr, [l EXCEPT !.reqCursor = jr.startingAfter], "conv", t)
  ELSE PhaseContacts([jr EXCEPT !.phase = "contacts"], l, t)

(* Line 661: the head of the paging loop, up to the request. *)
ConvLoop(jr, l, t) ==
  IF timeLeftMs(l.deadlineMs, t) >= MIN_TIME_TO_START_REQUEST_MS
  THEN Suspend(jr, [l EXCEPT !.reqCursor = jr.startingAfter], "conv", t)
  ELSE PhaseContacts(jr, l, t)

(* Line 660: after the admin warm-up. *)
AfterWarm(jr, l, t) ==
  IF jr.phase = "conversations" THEN ConvLoop(jr, l, t) ELSE PhaseContacts(jr, l, t)

(* Lines 641-657: the start of stepJob. *)
stepJob(jr, t) ==
  LET jr1 == [jr EXCEPT !.status = "running", !.updatedAtMs = t]
      l == [NoLoc EXCEPT !.deadlineMs = t + STEP_BUDGET_MS - STEP_SAFETY_MS]
  IN IF timeLeftMs(l.deadlineMs, t) >= MIN_TIME_TO_START_REQUEST_MS
     THEN IF AdminCacheHit(jr1, t) THEN AfterWarm(jr1, l, t)
          ELSE Suspend(jr1, l, "admins", t)
     ELSE AfterWarm(jr1, l, t)

(* A soft-retry policy that gives up one timeout early. *)
SoftAbort_OneEarly(jr, l, e, t, next) ==
  IF isAbortError(e)
  THEN LET jr1 == [jr EXCEPT !.consecutiveAbortErrors = @ + 1]
       IN IF jr1.consecutiveAbortErrors >= AbortLimit - 1
          THEN StepCatch(jr1, l, e, t)
          ELSE IF next = "contacts" THEN PhaseContacts(jr1, l, t)
               ELSE PhaseFinalize(jr1, l, t)
  ELSE StepCatch(jr, l, e, t)

(* Lines 698-715 / 739-754: an error thrown by a paging or chunk request; *)
(* `next` is where the step continues after a soft abort.                  *)
SoftAbort(jr, l, e, t, next) ==
  IF isAbortError(e)
  THEN LET jr1 == [jr EXCEPT !.consecutiveAbortErrors = @ + 1]
       IN IF jr1.consecutiveAbortErrors >= AbortLimit
          THEN StepCatch(jr1, l, e, t)
          ELSE IF next = "contacts" THEN PhaseContacts(jr1, l, t)
               ELSE PhaseFinalize(jr1, l, t)
  ELSE StepCatch(jr, l, e, t)

(* A paging loop without the guard against empty pages. *)
EmptyPageGuard_Off(page) == FALSE

(* Line 697: a page without conversations that carries a cursor ends the  *)
(* paging of this step.                                                    *)
EmptyPageGuard(page) == Len(page.conversations) = 0 /\ page.nextCursor # NoCursor

(* A variant that does not count a page without conversations. *)
ConvPageOk_SkipsEmpty(jr, l, w, t) ==
  LET page == SearchPage(w, l.reqCursor)
      jr1 == [jr EXCEPT !.consecutiveAbortErrors = 0,
                        !.pagesFetched = IF page.conversations = <<>> THEN @ ELSE @ + 1,
                        !.conversationsFetched = @ + Len(page.conversations)]
      jr2 == [FoldConversations(jr1, page.conversations)
                EXCEPT !.startingAfter = page.nextCursor]
  IN IF page.nextCursor = NoCursor
     THEN PhaseContacts([jr2 EXCEPT !.phase = "contacts"], l, t)
     ELSE IF EmptyPageGuard(page)
          THEN PhaseContacts(jr2, l, t)
          ELSE ConvLoop(jr2, l, t)

(* Lines 663-697: a conversations page arrived. *)
ConvPageOk(jr, l, w, t) ==
  LET page == SearchPage(w, l.reqCursor)
      jr1 == [jr EXCEPT !.consecutiveAbortErrors = 0,
                        !.pagesFetched = @ + 1,
                        !.conversationsFetched = @ + Len(page.conversations)]
      jr2 == [FoldConversations(jr1, page.conversations)
                EXCEPT !.startingAfter = page.nextCursor]
  IN IF page.nextCursor = NoCursor
     THEN PhaseContacts([jr2 EXCEPT !.phase = "contacts"], l, t)
     ELSE IF EmptyPageGuard(page)
          THEN PhaseContacts(jr2, l, t)
          ELSE ConvLoop(jr2, l, t)

(* Lines 511-527: the answer to one chunk request arrived. *)
ChunkOk(jr, l, w, t) ==
  LET chunk == ChunkOf(l)
      jr1 == [jr EXCEPT !.contactCache = StoreChunk(@, chunk, SearchContacts(w, chunk), t)]
  IN ChunkLoop(jr1, [l EXCEPT !.i = @ + CONTACT_CHUNK_SIZE], t)

(* fetchAdminsCached lines 453-464: the admin list arrived; `now` was     *)
(* read before the request.                                                *)
AdminsOk(jr, l) == [jr EXCEPT !.adminCache = [fetchedAtMs |-> l.reqStart]]

(* The continuation of a suspended step when its call ends with outcome. *)
Resumed(p, jr, l, outcome, w, t) ==
  CASE p = "admins" ->
         IF outcome = "ok" THEN AfterWarm(AdminsOk(jr, l), l, t)
         ELSE StepCatch(jr, l, ErrorOf(outcome), t)
    [] p = "conv" ->
         IF outcome = "ok" THEN ConvPageOk(jr, l, w, t)
         ELSE SoftAbort(jr, l, ErrorOf(outcome), t, "contacts")
    [] p = "contacts" ->
         IF outcome = "ok" THEN ChunkOk(jr, l, w, t)
         ELSE SoftAbort(jr, l, ErrorOf(outcome), t, "finalize")
    [] p = "fin_admins" ->
         IF outcome = "ok" THEN FinalizeBody(AdminsOk(jr, l), l, t)
         ELSE StepCatch(jr, l, ErrorOf(outcome), t)

(* A retry rule that allows one attempt more. *)
Retries_OneMore(l, outcome) == outcome \in RateOutcomes /\ l.attempt <= MAX_RETRIES

(* Line 333: the answer is a 429 and attempts remain. *)
Retries(l, outcome) == outcome \in RateOutcomes /\ l.attempt < MAX_RETRIES

(* A backoff of two seconds whatever the attempt. *)
delaySeconds_Constant(l, outcome) ==
  LET retryAfterHeader == RetryAfter(outcome)
      retryAfterSeconds == IF retryAfterHeader.kind = "absent" THEN NaN ELSE retryAfterHeader
  IN IF retryAfterSeconds.kind = "num" THEN retryAfterSeconds.n ELSE 2

(* Lines 334-336: Retry-After if the answer carries a number, else        *)
(* 2 ** attempt.                                                           *)
delaySeconds(l, outcome) ==
  LET retryAfterHeader == RetryAfter(outcome)
      retryAfterSeconds == IF retryAfterHeader.kind = "absent" THEN NaN ELSE retryAfterHeader
  IN IF retryAfterSeconds.kind = "num" THEN retryAfterSeconds.n ELSE 2 ^ l.attempt

(* Line 347: the request sleeps; the step stays suspended on it. *)
Backoff(p, jr, l, outcome, t) ==
  [job |-> jr, pc |-> p,
   loc |-> [l EXCEPT !.wakeAt = t + delaySeconds(l, outcome) * 1000],
   out |-> NoSnap]

(* Lines 323-372: the fetch of a suspended intercomRequest ended. *)
intercomRequest(p, jr, l, outcome, w, t) ==
  IF Retries(l, outcome) THEN Backoff(p, jr, l, outcome, t)
  ELSE Resumed(p, jr, l, outcome, w, t)

(* Lines 348 and 292-311: the sleep is over, the next attempt starts. *)
Reattempt(l, t) ==
  [l EXCEPT !.attempt = @ + 1, !.wakeAt = 0, !.callStart = t,
            !.timeoutMs = EffectiveTimeout(l.deadlineMs, t)]

----------------------------------------------------------------------------
(* The page routes/engagement/caseload/+page.svelte: loadReport and       *)
(* runJobAndBuildReport.  A run is one call of loadReport; the operators   *)
(* below are the synchronous code between two awaits of a run, as          *)
(* functions of the page state c.                                          *)

Runs == {"r1", "r2"}

(* Progress answers a run gets before its job is done, and pages of       *)
(* members a finished job serves, at most.                                 *)
MaxProgress == 2
MaxMemberPages == 2

(* The id randomUUID() gives the job of a run's create request. *)
JobOf(r) == IF r = "r1" THEN "j1" ELSE "j2"

(* pos: the await a run is suspended on ("none" before the call of        *)
(* loadReport, "done" after it); myJobId: "" is null; aborted: its signal;  *)
(* sent: requests it has sent; polls and pages: answers it has got;         *)
(* result: how runJobAndBuildReport ended.                                 *)
NoRun == [pos |-> "none", myJobId |-> "", aborted |-> FALSE, sent |-> 0,
          polls |-> 0, pages |-> 0, result |-> ""]

(* net: the requests sent and not yet answered; made: the ids of the jobs *)
(* the server created; cleaned: the cleanup requests sent by the finally    *)
(* block of a run.                                                          *)
NoClient == [run |-> [r \in Runs |-> NoRun], activeJobId |-> "", runController |-> "",
             net |-> {}, made |-> {}, cleaned |-> {}]

(* lib/server/intercom.ts, fetchContactsByIds: the state of one call.      *)

(* The longest list of contact ids a call is given. *)
MaxIds == 3

Workers == 1 .. MaxIds

(* A worker: where it stands ("none" never started, "wait" suspended on    *)
(* the request for id, "done" returned).                                   *)
NoWorker == [pos |-> "none", id |-> ""]

(* pos: "none" before the call, "running" while Promise.all is pending,    *)
(* "returned" after; sent: the ids requested so far, in order; result: the *)
(* keys of the result map; failed: the ids onError was called for.         *)
NoPool == [pos |-> "none", contactIds |-> <<>>, concurrency |-> NoParam,
           ids |-> <<>>, index |-> 0, worker |-> [k \in Workers |-> NoWorker],
           result |-> {}, sent |-> <<>>, failed |-> {}]

(* The requests fetchJson is given the signal of the run for              *)
(* (caseload-job.ts lines 25 and 41, +page.svelte lines 325 and 385).       *)
Abortable == {"create", "step", "members"}

(* fetch(input, init) without a signal, or with one that is not aborted. *)
Send(c, r, op, id, pos) ==
  [c EXCEPT !.net = @ \cup {[run |-> r, op |-> op, id |-> id, n |-> c.run[r].sent]},
            !.run[r] = [@ EXCEPT !.sent = @ + 1, !.pos = pos]]

(* loadReport lines 499-506: the run is over. *)
Finished(c, r) ==
  [c EXCEPT !.activeJobId = IF @ = c.run[r].myJobId THEN "" ELSE @,
            !.runController = IF @ = r THEN "" ELSE @,
            !.run[r].pos = "done"]

(* A finally block that cleans up only after a failure. *)
Finally_OnlyWhenThrown(c, r, res) ==
  LET c1 == [c EXCEPT !.run[r].result = res]
      id == c.run[r].myJobId
  IN IF id # "" /\ res = "threw"
     THEN Send([c1 EXCEPT !.cleaned = @ \cup {[run |-> r, id |-> id]}], r, "cleanup", id, "cleanup")
     ELSE Finished(c1, r)

(* runJobAndBuildReport lines 400-404: the finally block, entered when   *)
(* the body returned or threw.                                             *)
Finally(c, r, res) ==
  LET c1 == [c EXCEPT !.run[r].result = res]
      id == c.run[r].myJobId
  IN IF id # ""
     THEN Send([c1 EXCEPT !.cleaned = @ \cup {[run |-> r, id |-> id]}], r, "cleanup", id, "cleanup")
     ELSE Finished(c1, r)

(* A fetch that is not given the signal of the run. *)
Fetch_WithoutSignal(c, r, op, id) ==
  Send(c, r, op, id, op)

(* fetchJson with the signal of the run: a signal already aborted rejects *)
(* the fetch before anything is sent, and the body of the run throws.       *)
Fetch(c, r, op, id) ==
  IF c.run[r].aborted THEN Finally(c, r, "threw")
  ELSE Send(c, r, op, id, op)

(* runJobAndBuildReport lines 352-362, up to its first await. *)
StartJob(c, r) ==
  LET previousJobId == c.activeJobId
      c1 == [c EXCEPT !.activeJobId = ""]
  IN IF previousJobId # "" THEN Send(c1, r, "cleanup", previousJobId, "cleanPrevRun")
     ELSE Fetch(c1, r, "create", "")

(* loadReport lines 438-445: a new controller; the previous run, if one   *)
(* is still registered, is aborted.                                        *)
TakeOver(c, r) ==
  LET c1 == IF c.runController # ""
            THEN [c EXCEPT !.run[c.runController].aborted = TRUE] ELSE c
  IN [c1 EXCEPT !.runController = r]

(* loadReport lines 433-465 and 487, up to the first await of the run. *)
StartLoad(c, r) ==
  LET c1 == TakeOver(c, r)
      prevJobId == c1.activeJobId
      c2 == [c1 EXCEPT !.activeJobId = ""]
  IN IF prevJobId # "" THEN Send(c2, r, "cleanup", prevJobId, "cleanPrevLoad")
     ELSE StartJob(c2, r)

(* loadReport lines 433-457 and 499-506: the window asked for is cached. *)
StartCached(c, r) == Finished(TakeOver(c, r), r)

(* The answers to a request: "fail" is a status that is not 2xx. *)
Answers(op) ==
  CASE op = "cleanup" -> {"ok", "fail"}
    [] op = "create" -> {"ok", "fail"}
    [] op = "step" -> {"running", "complete", "error", "cancelled", "fail"}
    [] op = "summary" -> {"ok", "fail"}
    [] op = "members" -> {"last", "more", "fail"}

(* The run goes on after the answer to the request it awaits              *)
(* (runJobAndBuildReport lines 363-398, fetchAllMembers lines 326-340).     *)
Resume(c, r, q, resp) ==
  LET pos == c.run[r].pos
      id == c.run[r].myJobId
  IN CASE pos = "cleanPrevLoad" -> StartJob(c, r)
       [] pos = "cleanPrevRun" -> Fetch(c, r, "create", "")
       [] pos = "cleanup" -> Finished(c, r)
       [] pos = "create" ->
            IF resp = "ok"
            THEN Fetch([c EXCEPT !.run[r].myJobId = JobOf(r), !.activeJobId = JobOf(r)],
                       r, "step", JobOf(r))
            ELSE Finally(c, r, "threw")
       [] pos = "step" ->
            IF resp = "running" THEN [c EXCEPT !.run[r] = [@ EXCEPT !.pos = "sleep", !.polls = @ + 1]]
            ELSE IF resp = "complete" THEN Send(c, r, "summary", id, "summary")
            ELSE Finally(c, r, "threw")
       [] pos = "summary" ->
            IF resp = "ok" THEN Fetch(c, r, "members", id)
            ELSE Finally(c, r, "threw")
       [] pos = "members" ->
            IF resp = "last" THEN Finally(c, r, "returned")
            ELSE IF resp = "more" THEN Fetch([c EXCEPT !.run[r].pages = @ + 1], r, "members", id)
            ELSE Finally(c, r, "threw")

(* The run is suspended on request q and has not been aborted out of it. *)
Awaits(c, q) ==
  /\ c.run[q.run].pos \in {"cleanPrevLoad", "cleanPrevRun", "cleanup", "create", "step",
                             "summary", "members"}
  /\ q.n = c.run[q.run].sent - 1
  /\ ~(q.op \in Abortable /\ c.run[q.run].aborted)

----------------------------------------------------------------------------
(* Handlers *)

(* attempts and rates count the fetches started and the 429 answers seen  *)
(* for the request the job's step is, or was last, suspended on.           *)
(* stored is the set of contact ids ever written to the job's cache.      *)
NoHist == [cancelledInFlight |-> FALSE, abortsSinceOk |-> 0, failMessage |-> NoError,
           attempts |-> 0, rates |-> 0, stored |-> {}]

(* The counts after a continuation r that was not a backoff. *)
CountRequest(h, r) ==
  IF r.pc # "idle" THEN [h EXCEPT !.attempts = 1, !.rates = 0] ELSE h

Event(op, id, outcome, snap) == [op |-> op, id |-> id, outcome |-> outcome, snap |-> snap]

(* A variant that measures the age of a job from its creation. *)
cleanExpiredJobs_ByCreation(js, t) == {id \in js : ~(t - job[id].createdAtMs > JOB_TTL_MS)}

(* cleanExpiredJobs(Date.now()), run first by every POST and GET. *)
cleanExpiredJobs(js, t) == {id \in js : ~(t - job[id].updatedAtMs > JOB_TTL_MS)}

(* What a NotFound answer about job j is due to: "swept" when the sweep  *)
(* of this very request removed the job, "" when it was absent before.     *)
Gone(j) == IF j \in jobs THEN "swept" ELSE ""

(* The part of a step response every step response carries. *)
Brief(snap) == [status |-> snap.status, phase |-> snap.phase, done |-> snap.done,
                error |-> snap.error]

(* A step response reaches the client. *)
Deliver(j, snap) ==
  lastStep' = [lastStep EXCEPT ![j] = Brief(snap)]

(* The state a stepJob continuation r leaves for job j. *)
Install(j, r) ==
  /\ job' = [job EXCEPT ![j] = r.job]
  /\ pc' = [pc EXCEPT ![j] = r.pc]
  /\ loc' = [loc EXCEPT ![j] = r.loc]
  /\ IF r.pc = "idle" THEN Deliver(j, r.out) ELSE UNCHANGED lastStep

Init ==
  /\ now = 0
  /\ ticks = 0
  /\ world \in Worlds
  /\ jobs = {}
  /\ created = {}
  /\ job = [j \in JobIds |-> createJob(0)]
  /\ pc = [j \in JobIds |-> "idle"]
  /\ loc = [j \in JobIds |-> NoLoc]
  /\ ev = Event("init", "", "", NoSnap)
  /\ lastStep = [j \in JobIds |-> Brief(NoSnap)]
  /\ hist = [j \in JobIds |-> NoHist]
  /\ client = NoClient
  /\ pool = NoPool

(* Lines 564-569 of createJob: the window of a job created at time t;    *)
(* NoUntil when the job has no upper end.                                  *)
NoUntil == -1
Window(lookbackDays, until, t) ==
  LET nowUnix == EpochUnix + (t \div 1000)
  IN [lookbackDays |-> lookbackDays,
      sinceUnix |-> nowUnix - lookbackDays * SECONDS_PER_DAY,
      untilUnix |-> IF until.kind = "num" /\ until.n > 0 /\ until.n < lookbackDays
                    THEN nowUnix - until.n * SECONDS_PER_DAY ELSE NoUntil]

(* A rule that lets a lookback of zero days pass. *)
ValidDays_AllowsZero(x) == x.kind = "num" /\ x.n >= 0

(* Lines 934 and 951: Number(value) is a number and positive. *)
ValidDays(x) == x.kind = "num" /\ x.n > 0

(* The body of a create response, with the parameters of its request. *)
CreateSnap(c, lb, un) == [lookbackRaw |-> lb, untilRaw |-> un] @@ CodeSnap(c)

(* POST op=create (lines 932-975).  lb and un are body.lookbackDays and   *)
(* body.untilLookbackDays; a lookbackDays that is not sent reads as NaN.   *)
(* j is the id randomUUID() returns.                                       *)
PostCreateWith(j, lb, un) ==
  /\ j \notin created
  /\ LET js == cleanExpiredJobs(jobs, now)
         parsed == IF lb.kind = "absent" THEN NaN ELSE lb
     IN IF ~ValidDays(parsed)
        THEN /\ jobs' = js
             /\ ev' = Event("create", "", "Invalid lookbackDays", CreateSnap(400, lb, un))
             /\ UNCHANGED <<created, job>>
        ELSE IF un.kind # "absent" /\ ~ValidDays(un)
        THEN /\ jobs' = js
             /\ ev' = Event("create", "", "Invalid untilLookbackDays", CreateSnap(400, lb, un))
             /\ UNCHANGED <<created, job>>
        ELSE LET w == Window(Min(parsed.n, maxLookbackDays), un, now)
             IN /\ created' = created \cup {j}
                /\ jobs' = js \cup {j}
                /\ job' = [job EXCEPT ![j] = w @@ createJob(now)]
                /\ ev' = Event("create", j, "",
                               w @@ [CreateSnap(200, lb, un) EXCEPT
                                       !.status = "queued", !.phase = "conversations"])
  /\ UNCHANGED <<now, ticks, world, client, pool, pc, loc, lastStep, hist>>

(* The lookback, in days, that holds the conversations of every world. *)
WorldLookbackDays == 100

(* POST op=create with a valid lookback and no upper end. *)
PostCreate(j) == PostCreateWith(j, Num(WorldLookbackDays), NoParam)

(* POST op=step (lines 977-1011) up to the first await of stepJob. *)
PostStep(j) ==
  /\ pc[j] = "idle"
  /\ LET js == cleanExpiredJobs(jobs, now)
     IN /\ jobs' = js
        /\ IF j \notin js
           THEN /\ ev' = Event("step", j, Gone(j), CodeSnap(404))
                /\ UNCHANGED <<job, pc, loc, lastStep>>
           ELSE IF Terminal(job[j].status)
           THEN /\ ev' = Event("step", j, "terminal", TerminalSnap(job[j]))
                /\ Deliver(j, TerminalSnap(job[j]))
                /\ UNCHANGED <<job, pc, loc>>
           ELSE LET r == stepJob(job[j], now)
                IN /\ Install(j, r)
                   /\ ev' = Event("step", j, "", r.out)
  /\ hist' = IF pc'[j] # "idle" THEN [hist EXCEPT ![j] = CountRequest(@, [pc |-> pc'[j]])]
             ELSE hist
  /\ UNCHANGED <<now, ticks, world, client, pool, created>>

(* A step that puts its job back into the registry when it returns. *)
CallReturns_Reinserts(j, outcome) ==
  /\ pc[j] # "idle"
  /\ loc[j].wakeAt = 0
  /\ IF outcome = "abort"
     THEN now - loc[j].callStart >= loc[j].timeoutMs
     ELSE now - loc[j].callStart < loc[j].timeoutMs
  /\ LET r == intercomRequest(pc[j], job[j], loc[j], outcome, world, now)
         seen == IF outcome \in RateOutcomes THEN hist[j].rates + 1 ELSE hist[j].rates
     IN /\ Install(j, r)
        /\ jobs' = IF r.pc = "idle" THEN jobs \cup {j} ELSE jobs
        /\ ev' = Event("call", j, outcome, r.out)
        /\ hist' = [hist EXCEPT
                      ![j] = [IF r.loc.wakeAt # 0 THEN [@ EXCEPT !.rates = seen]
                              ELSE CountRequest([@ EXCEPT !.rates = seen], r)
                              EXCEPT
                        !.abortsSinceOk = IF outcome = "ok" THEN 0
                                          ELSE IF outcome = "abort" THEN Min(@ + 1, AbortLimit)
                                          ELSE @,
                        !.failMessage = IF r.job.status = "error" /\ job[j].status # "error"
                                        THEN ErrorOf(outcome).message ELSE @,
                        !.stored = @ \cup DOMAIN r.job.contactCache]]
  /\ UNCHANGED <<now, ticks, world, client, pool, created>>

(* The outbound call a step of job j is suspended on ends: with a         *)
(* response before its timer fires, or with AbortError when it fires.      *)
CallReturns(j, outcome) ==
  /\ pc[j] # "idle"
  /\ loc[j].wakeAt = 0
  /\ IF outcome = "abort"
     THEN now - loc[j].callStart >= loc[j].timeoutMs
     ELSE now - loc[j].callStart < loc[j].timeoutMs
  /\ LET r == intercomRequest(pc[j], job[j], loc[j], outcome, world, now)
         seen == IF outcome \in RateOutcomes THEN hist[j].rates + 1 ELSE hist[j].rates
     IN /\ Install(j, r)
        /\ ev' = Event("call", j, outcome, r.out)
        /\ hist' = [hist EXCEPT
                      ![j] = [IF r.loc.wakeAt # 0 THEN [@ EXCEPT !.rates = seen]
                              ELSE CountRequest([@ EXCEPT !.rates = seen], r)
                              EXCEPT
                        !.abortsSinceOk = IF outcome = "ok" THEN 0
                                          ELSE IF outcome = "abort" THEN Min(@ + 1, AbortLimit)
                                          ELSE @,
                        !.failMessage = IF r.job.status = "error" /\ job[j].status # "error"
                                        THEN ErrorOf(outcome).message ELSE @,
                        !.stored = @ \cup DOMAIN r.job.contactCache]]
  /\ UNCHANGED <<now, ticks, world, client, pool, jobs, created>>

(* The backoff sleep of job j's request is over: the next attempt starts. *)
RetryStarts(j) ==
  /\ pc[j] # "idle"
  /\ loc[j].wakeAt # 0
  /\ now >= loc[j].wakeAt
  /\ loc' = [loc EXCEPT ![j] = Reattempt(@, now)]
  /\ hist' = [hist EXCEPT ![j].attempts = @ + 1]
  /\ ev' = Event("retry", j, "", NoSnap)
  /\ UNCHANGED <<now, ticks, world, client, pool, jobs, created, job, pc, lastStep>>

(* A cancel that also clears the soft-retry counter. *)
cancelJob_ResetsCounter(jr, t) ==
  [jr EXCEPT !.status = "cancelled", !.phase = "complete", !.updatedAtMs = t,
             !.consecutiveAbortErrors = 0]

(* Lines 1039-1041: what cancel writes to the job. *)
cancelJob(jr, t) ==
  [jr EXCEPT !.status = "cancelled", !.phase = "complete", !.updatedAtMs = t]

(* A cancel that writes to the job record without looking the id up. *)
PostCancel_NoLookup(j) ==
  /\ LET js == cleanExpiredJobs(jobs, now)
     IN /\ jobs' = js
        /\ job' = [job EXCEPT ![j] = cancelJob(job[j], now)]
        /\ ev' = Event("cancel", j, "", IF j \notin js THEN CodeSnap(404)
                                        ELSE [NoSnap EXCEPT !.code = 200,
                                                !.status = "cancelled", !.done = TRUE])
        /\ hist' = [hist EXCEPT ![j].cancelledInFlight = @ \/ pc[j] # "idle"]
  /\ UNCHANGED <<now, ticks, world, client, pool, created, pc, loc, lastStep>>

(* POST op=cancel (lines 1030-1048). *)
PostCancel(j) ==
  /\ LET js == cleanExpiredJobs(jobs, now)
     IN /\ jobs' = js
        /\ IF j \notin js
           THEN /\ ev' = Event("cancel", j, Gone(j), CodeSnap(404))
                /\ UNCHANGED <<job, hist>>
           ELSE /\ job' = [job EXCEPT ![j] = cancelJob(job[j], now)]
                /\ ev' = Event("cancel", j, "", [NoSnap EXCEPT !.code = 200,
                                                     !.status = "cancelled", !.done = TRUE])
                /\ hist' = [hist EXCEPT ![j].cancelledInFlight = @ \/ pc[j] # "idle"]
  /\ UNCHANGED <<now, ticks, world, client, pool, created, pc, loc, lastStep>>

(* A cleanup that empties the registry. *)
PostCleanup_DeletesAll(j) ==
  /\ LET js == cleanExpiredJobs(jobs, now)
     IN /\ jobs' = {}
        /\ ev' = Event("cleanup", j, IF j \in js THEN "deleted" ELSE "absent", CodeSnap(200))
  /\ UNCHANGED <<now, ticks, world, client, pool, created, job, pc, loc, lastStep, hist>>

(* POST op=cleanup (lines 1013-1028). *)
PostCleanup(j) ==
  /\ LET js == cleanExpiredJobs(jobs, now)
     IN /\ jobs' = js \ {j}
        /\ ev' = Event("cleanup", j, IF j \in js THEN "deleted" ELSE "absent", CodeSnap(200))
  /\ UNCHANGED <<now, ticks, world, client, pool, created, job, pc, loc, lastStep, hist>>

(* A status request that counts as activity of the job. *)
GetStatus_Touches(j) ==
  /\ LET js == cleanExpiredJobs(jobs, now)
     IN /\ jobs' = js
        /\ IF j \notin js
           THEN /\ ev' = Event("status", j, Gone(j), CodeSnap(404))
                /\ UNCHANGED job
           ELSE LET jr == [job[j] EXCEPT
                             !.updatedAtMs = now,
                             !.contactCache = EvictRead(@, Range(job[j].memberIds), now)]
                IN /\ job' = [job EXCEPT ![j] = jr]
                   /\ ev' = Event("status", j, "",
                                  [ProgressSnap(jr, now) EXCEPT
                                     !.done = Terminal(jr.status), !.error = jr.error])
  /\ UNCHANGED <<now, ticks, world, client, pool, created, pc, loc, lastStep, hist>>

(* GET ?jobId= without a view (lines 1059-1111). *)
GetStatus(j) ==
  /\ LET js == cleanExpiredJobs(jobs, now)
     IN /\ jobs' = js
        /\ IF j \notin js
           THEN /\ ev' = Event("status", j, Gone(j), CodeSnap(404))
                /\ UNCHANGED job
           ELSE LET jr == [job[j] EXCEPT
                             !.contactCache = EvictRead(@, Range(job[j].memberIds), now)]
                IN /\ job' = [job EXCEPT ![j] = jr]
                   /\ ev' = Event("status", j, "",
                                  [ProgressSnap(jr, now) EXCEPT
                                     !.done = Terminal(jr.status), !.error = jr.error])
  /\ UNCHANGED <<now, ticks, world, client, pool, created, pc, loc, lastStep, hist>>

Views == {"summary", "members"}

(* Number(param ?? d), Math.max(a, x), Math.min(a, x) and x + y. *)
NumberOr(q, d) == IF q.kind = "absent" THEN Num(d) ELSE q
MathMax(a, x) == IF x.kind = "nan" THEN NaN ELSE Num(Max(a, x.n))
MathMin(a, x) == IF x.kind = "nan" THEN NaN ELSE Num(Min(a, x.n))
Plus(x, y) == IF x.kind = "nan" \/ y.kind = "nan" THEN NaN ELSE Num(x.n + y.n)

(* Line 1140. *)
ParseOffset(q) == MathMax(0, NumberOr(q, 0))

(* A limit that is capped and has no floor. *)
ParseLimit_NoFloor(q) == MathMin(maxLimit, NumberOr(q, defaultLimit))

(* Line 1141. *)
ParseLimit(q) == MathMin(maxLimit, MathMax(1, NumberOr(q, defaultLimit)))

(* Array.prototype.slice(start, end) for arguments that are NaN (read as  *)
(* 0) or not negative.                                                     *)
ToIndex(x, len) == IF x.kind = "nan" THEN 0 ELSE Min(x.n, len)
Slice(rows, start, end) == SubSeq(rows, ToIndex(start, Len(rows)) + 1, ToIndex(end, Len(rows)))

(* nextOffset: null in the response body. *)
NoOffset == -1

(* A page that announces a next page also when none is left. *)
PageOf_NextAtEnd(rows, offset, limit) ==
  LET end == Plus(offset, limit)
  IN [items |-> Slice(rows, offset, end),
      nextOffset |-> IF end.kind = "num" /\ end.n <= Len(rows) THEN end.n ELSE NoOffset,
      total |-> Len(rows)]

(* Lines 1145-1146 and 889-917: items, nextOffset and total of one page. *)
PageOf(rows, offset, limit) ==
  LET end == Plus(offset, limit)
  IN [items |-> Slice(rows, offset, end),
      nextOffset |-> IF end.kind = "num" /\ end.n < Len(rows) THEN end.n ELSE NoOffset,
      total |-> Len(rows)]

(* The body of a page response, with the parameters of its request. *)
PageSnap(page, qo, ql) ==
  [items |-> page.items, nextOffset |-> page.nextOffset, total |-> page.total,
   offset |-> qo, limit |-> ql] @@ CodeSnap(200)

(* Lines 1124-1138: the body of the summary view. *)
SummarySnap(jr) ==
  [summary |-> jr.summary, totalMembers |-> jr.totalMembers,
   members |-> Len(jr.members), sessions |-> Len(jr.sessions)] @@ CodeSnap(200)

(* Lines 892-914: the detail rows of a slice of sessions. *)
SessionDetails(jr, rows, t) ==
  [k \in 1..Len(rows) |->
     [session |-> rows[k],
      known |-> IsCached(jr.contactCache, rows[k].memberId, t)
                  /\ ~jr.contactCache[rows[k].memberId].notFound]]

(* A guard that also serves the results of a cancelled job. *)
NotComplete_ServesCancelled(jr) == jr.status \notin {"complete", "cancelled"}

(* Line 1113. *)
NotComplete(jr) == jr.status # "complete"

(* GET ?jobId=&view=&offset=&limit= (lines 1059-1080 and 1113-1166).  The *)
(* /admins call a sessions request makes when the admin cache is stale is  *)
(* answered within the transition, with `outcome`; an error of that call   *)
(* is not caught and ends the request with status 500.                     *)
GetResults(j, view, qo, ql, outcome) ==
  /\ LET js == cleanExpiredJobs(jobs, now)
         jr == job[j]
         offset == ParseOffset(qo)
         limit == ParseLimit(ql)
     IN /\ jobs' = js
        /\ IF j \notin js
           THEN /\ ev' = Event(view, j, Gone(j), CodeSnap(404))
                /\ UNCHANGED job
           ELSE IF NotComplete(jr)
           THEN /\ ev' = Event(view, j, "", [NoSnap EXCEPT !.code = 409, !.status = jr.status,
                                                           !.phase = jr.phase])
                /\ UNCHANGED job
           ELSE IF view = "summary"
           THEN /\ ev' = Event(view, j, "", SummarySnap(jr))
                /\ UNCHANGED job
           ELSE IF view = "members"
           THEN /\ ev' = Event(view, j, "", PageSnap(PageOf(jr.members, offset, limit), qo, ql))
                /\ UNCHANGED job
           ELSE IF view = "sessions"
           THEN IF ~AdminCacheHit(jr, now) /\ outcome # "ok"
                THEN /\ ev' = Event(view, j, outcome, CodeSnap(500))
                     /\ UNCHANGED job
                ELSE LET jr1 == IF AdminCacheHit(jr, now) THEN jr
                                ELSE [jr EXCEPT !.adminCache = [fetchedAtMs |-> now]]
                         page == PageOf(jr.sessions, offset, limit)
                         read == {page.items[k].memberId : k \in 1..Len(page.items)}
                         details == SessionDetails(jr1, page.items, now)
                     IN /\ job' = [job EXCEPT ![j] =
                                     [jr1 EXCEPT !.contactCache = EvictRead(@, read, now)]]
                        /\ ev' = Event(view, j, "",
                                       PageSnap([page EXCEPT !.items = details], qo, ql))
           ELSE /\ ev' = Event(view, j, "", CodeSnap(400))
                /\ UNCHANGED job
  /\ UNCHANGED <<now, ticks, world, client, pool, created, pc, loc, lastStep, hist>>

(* GET ?jobId=&view= without offset and limit, views summary and members. *)
GetView(j, view) == GetResults(j, view, NoParam, NoParam, "ok")

(* Time passes: by one of TickSizes, or up to the moment the timer of a   *)
(* suspended call fires; never past the timer of a suspended call.         *)
InFlight == {j \in JobIds : pc[j] # "idle"}

TimerAt(j) ==
  IF loc[j].wakeAt # 0 THEN loc[j].wakeAt ELSE loc[j].callStart + loc[j].timeoutMs

Tick(d) ==
  /\ ticks < MaxTicks
  /\ d > 0
  /\ \A j \in InFlight : now + d <= TimerAt(j)
  /\ now' = now + d
  /\ ticks' = ticks + 1
  /\ ev' = Event("tick", "", "", NoSnap)
  /\ UNCHANGED <<world, client, pool, jobs, created, job, pc, loc, lastStep, hist>>

TimerFires(j) ==
  /\ pc[j] # "idle"
  /\ Tick(TimerAt(j) - now)

Requests(J) ==
  \/ \E j \in J : PostCreate(j)
  \/ \E j \in J : PostStep(j)
  \/ \E j \in J, o \in Outcomes : CallReturns(j, o)
  \/ \E j \in J : PostCancel(j)
  \/ \E j \in J : PostCleanup(j)
  \/ \E j \in J : GetStatus(j)
  \/ \E j \in J, v \in Views : GetView(j, v)
  \/ \E d \in TickSizes : Tick(d)
  \/ \E j \in J : TimerFires(j)

(* One client and one job, every world. *)
Next == Requests({"j1"})

Spec == Init /\ [][Next]_vars

(* Two jobs side by side, in the small world, with one clock advance     *)
(* fewer than Spec allows.                                                 *)
InitTwo ==
  /\ now = 0
  /\ ticks = 1
  /\ world = WorldSmall
  /\ jobs = {}
  /\ created = {}
  /\ job = [j \in JobIds |-> createJob(0)]
  /\ pc = [j \in JobIds |-> "idle"]
  /\ loc = [j \in JobIds |-> NoLoc]
  /\ ev = Event("init", "", "", NoSnap)
  /\ lastStep = [j \in JobIds |-> Brief(NoSnap)]
  /\ hist = [j \in JobIds |-> NoHist]
  /\ client = NoClient
  /\ pool = NoPool

NextTwo ==
  \/ \E j \in JobIds : PostCreate(j)
  \/ \E j \in JobIds : PostStep(j)
  \/ \E j \in JobIds, o \in Outcomes : CallReturns(j, o)
  \/ \E j \in JobIds : PostCancel(j)
  \/ \E d \in TickSizes : Tick(d)
  \/ \E j \in JobIds : TimerFires(j)

SpecTwo == InitTwo /\ [][NextTwo]_vars

(* One job against a remote API that also answers 429. *)
InitRate ==
  /\ now = 0
  /\ ticks = 0
  /\ world \in RateWorlds
  /\ jobs = {}
  /\ created = {}
  /\ job = [j \in JobIds |-> createJob(0)]
  /\ pc = [j \in JobIds |-> "idle"]
  /\ loc = [j \in JobIds |-> NoLoc]
  /\ ev = Event("init", "", "", NoSnap)
  /\ lastStep = [j \in JobIds |-> Brief(NoSnap)]
  /\ hist = [j \in JobIds |-> NoHist]
  /\ client = NoClient
  /\ pool = NoPool

NextRate ==
  \/ PostCreate("j1")
  \/ PostStep("j1")
  \/ \E o \in Outcomes \cup RateOutcomes : CallReturns("j1", o)
  \/ RetryStarts("j1")
  \/ PostCancel("j1")
  \/ GetStatus("j1")
  \/ \E d \in TickSizes : Tick(d)
  \/ TimerFires("j1")

SpecRate == InitRate /\ [][NextRate]_vars

(* One job kept alive for longer than CONTACT_CACHE_TTL_MS: by steps that *)
(* are too slow to hydrate, or by cancel requests.                         *)
InitCache ==
  /\ now = 0
  /\ ticks = MaxTicks - CacheAdvances
  /\ world = WorldCache
  /\ jobs = {}
  /\ created = {}
  /\ job = [j \in JobIds |-> createJob(0)]
  /\ pc = [j \in JobIds |-> "idle"]
  /\ loc = [j \in JobIds |-> NoLoc]
  /\ ev = Event("init", "", "", NoSnap)
  /\ lastStep = [j \in JobIds |-> Brief(NoSnap)]
  /\ hist = [j \in JobIds |-> NoHist]
  /\ client = NoClient
  /\ pool = NoPool

(* No request arrives for the longest time a job survives. *)
Pause ==
  /\ InFlight = {}
  /\ Tick(JOB_TTL_MS)

(* The pending outbound call takes SlowCallMs. *)
SlowCall ==
  /\ InFlight # {}
  /\ Tick(SlowCallMs)

NextCache ==
  \/ PostCreate("j1")
  \/ PostStep("j1")
  \/ CallReturns("j1", "ok")
  \/ PostCancel("j1")
  \/ GetStatus("j1")
  \/ Pause
  \/ SlowCall

SpecCache == InitCache /\ [][NextCache]_vars

(* One job run to completion over members whose last sessions lie at the  *)
(* bucket boundaries.                                                      *)
InitBuckets ==
  /\ now = 0
  /\ ticks = 0
  /\ world \in {WorldAged(a, b) : a \in BoundaryAges, b \in BoundaryAges}
  /\ jobs = {}
  /\ created = {}
  /\ job = [j \in JobIds |-> createJob(0)]
  /\ pc = [j \in JobIds |-> "idle"]
  /\ loc = [j \in JobIds |-> NoLoc]
  /\ ev = Event("init", "", "", NoSnap)
  /\ lastStep = [j \in JobIds |-> Brief(NoSnap)]
  /\ hist = [j \in JobIds |-> NoHist]
  /\ client = NoClient
  /\ pool = NoPool

NextBuckets ==
  \/ PostCreate("j1")
  \/ PostStep("j1")
  \/ CallReturns("j1", "ok")
  \/ \E v \in Views : GetView("j1", v)
  \/ \E d \in TickSizes : Tick(d)

SpecBuckets == InitBuckets /\ [][NextBuckets]_vars

(* One job over two chunks of members, and over no member at all. *)
HydrateWorlds == {WorldCache, WorldNoSessions}

InitHydrate ==
  /\ now = 0
  /\ ticks = 0
  /\ world \in HydrateWorlds
  /\ jobs = {}
  /\ created = {}
  /\ job = [j \in JobIds |-> createJob(0)]
  /\ pc = [j \in JobIds |-> "idle"]
  /\ loc = [j \in JobIds |-> NoLoc]
  /\ ev = Event("init", "", "", NoSnap)
  /\ lastStep = [j \in JobIds |-> Brief(NoSnap)]
  /\ hist = [j \in JobIds |-> NoHist]
  /\ client = NoClient
  /\ pool = NoPool

NextHydrate ==
  \/ PostCreate("j1")
  \/ PostStep("j1")
  \/ \E o \in Outcomes : CallReturns("j1", o)
  \/ PostCancel("j1")
  \/ \E d \in TickSizes : Tick(d)
  \/ TimerFires("j1")

SpecHydrate == InitHydrate /\ [][NextHydrate]_vars

(* One job and a client that asks for pages of its results, at once or  *)
(* after pauses of JOB_TTL_MS, when the admin cache of the job is stale.   *)
PageBound == 3
ResultPauses == 1

ResultViews == {"summary", "members", "sessions", "other"}
OffsetInputs == {NoParam, NaN} \cup {Num(n) : n \in -1..(PageBound + 1)}
LimitInputs == {NoParam, NaN} \cup {Num(n) : n \in (-1..PageBound) \cup {maxLimit + 1}}

ResultWorlds == {WorldSmall, WorldTwoChunks, WorldNoSessions}

InitResults ==
  /\ now = 0
  /\ ticks = MaxTicks - ResultPauses
  /\ world \in ResultWorlds
  /\ jobs = {}
  /\ created = {}
  /\ job = [j \in JobIds |-> createJob(0)]
  /\ pc = [j \in JobIds |-> "idle"]
  /\ loc = [j \in JobIds |-> NoLoc]
  /\ ev = Event("init", "", "", NoSnap)
  /\ lastStep = [j \in JobIds |-> Brief(NoSnap)]
  /\ hist = [j \in JobIds |-> NoHist]
  /\ client = NoClient
  /\ pool = NoPool

NextResults ==
  \/ PostCreate("j1")
  \/ PostStep("j1")
  \/ \E o \in {"ok", "fatal"} : CallReturns("j1", o)
  \/ PostCancel("j1")
  \/ \E v \in {"summary", "other"} : GetResults("j1", v, NoParam, NoParam, "ok")
  \/ \E qo \in OffsetInputs, ql \in LimitInputs : GetResults("j1", "members", qo, ql, "ok")
  \/ \E qo \in OffsetInputs, ql \in LimitInputs, o \in {"ok", "fatal"} :
        GetResults("j1", "sessions", qo, ql, o)
  \/ Pause

SpecResults == InitResults /\ [][NextResults]_vars

(* Two clients that create jobs with any lookback and upper end. *)
DayInputs == {-1, 0, 1, maxLookbackDays, maxLookbackDays + 1}
LookbackInputs == {NoParam, NaN} \cup {Num(n) : n \in DayInputs}
UntilInputs == {NoParam, NaN} \cup {Num(n) : n \in DayInputs}

InitCreate ==
  /\ now = 0
  /\ ticks = 0
  /\ world = WorldSmall
  /\ jobs = {}
  /\ created = {}
  /\ job = [j \in JobIds |-> createJob(0)]
  /\ pc = [j \in JobIds |-> "idle"]
  /\ loc = [j \in JobIds |-> NoLoc]
  /\ ev = Event("init", "", "", NoSnap)
  /\ lastStep = [j \in JobIds |-> Brief(NoSnap)]
  /\ hist = [j \in JobIds |-> NoHist]
  /\ client = NoClient
  /\ pool = NoPool

NextCreate ==
  \/ \E j \in JobIds, lb \in LookbackInputs, un \in UntilInputs : PostCreateWith(j, lb, un)
  \/ PostStep("j1")
  \/ CallReturns("j1", "ok")
  \/ \E j \in JobIds : PostCleanup(j)
  \/ \E d \in TickSizes : Tick(d)

SpecCreate == InitCreate /\ [][NextCreate]_vars

(* Two jobs whose requests interleave, against a remote API that answers *)
(* every call at once; the clients may stay away for longer than           *)
(* JOB_TTL_MS.                                                             *)
SharedPauses == 1

InitShared ==
  /\ now = 0
  /\ ticks = MaxTicks - SharedPauses
  /\ world = WorldSmall
  /\ jobs = {}
  /\ created = {}
  /\ job = [j \in JobIds |-> createJob(0)]
  /\ pc = [j \in JobIds |-> "idle"]
  /\ loc = [j \in JobIds |-> NoLoc]
  /\ ev = Event("init", "", "", NoSnap)
  /\ lastStep = [j \in JobIds |-> Brief(NoSnap)]
  /\ hist = [j \in JobIds |-> NoHist]
  /\ client = NoClient
  /\ pool = NoPool

(* No request arrives until a job that is not touched has expired. *)
LongPause ==
  /\ InFlight = {}
  /\ Tick(JOB_TTL_MS + 1)

NextShared ==
  \/ \E j \in JobIds : PostCreate(j)
  \/ \E j \in JobIds : PostStep(j)
  \/ \E j \in JobIds, o \in {"ok", "fatal"} : CallReturns(j, o)
  \/ \E j \in JobIds : PostCancel(j)
  \/ \E j \in JobIds : PostCleanup(j)
  \/ LongPause

SpecShared == InitShared /\ [][NextShared]_vars

(* One job against a remote API that fails in every way: timeouts, 429   *)
(* answers and other non-2xx answers, whatever their body text.            *)
ErrorWorlds == {WorldSmall, WorldSplit}

InitErrors ==
  /\ now = 0
  /\ ticks = 0
  /\ world \in ErrorWorlds
  /\ jobs = {}
  /\ created = {}
  /\ job = [j \in JobIds |-> createJob(0)]
  /\ pc = [j \in JobIds |-> "idle"]
  /\ loc = [j \in JobIds |-> NoLoc]
  /\ ev = Event("init", "", "", NoSnap)
  /\ lastStep = [j \in JobIds |-> Brief(NoSnap)]
  /\ hist = [j \in JobIds |-> NoHist]
  /\ client = NoClient
  /\ pool = NoPool

NextErrors ==
  \/ PostCreate("j1")
  \/ PostStep("j1")
  \/ \E o \in Outcomes \cup ErrorOutcomes \cup {"rate"} : CallReturns("j1", o)
  \/ RetryStarts("j1")
  \/ \E d \in TickSizes : Tick(d)
  \/ TimerFires("j1")

SpecErrors == InitErrors /\ [][NextErrors]_vars

(* The page alone, against a server that answers each request in any    *)
(* way; loadReport may be called again while a run is under way.           *)
ServerVars == <<now, ticks, world, jobs, created, job, pc, loc, ev, lastStep, hist, pool>>

InitClient ==
  /\ now = 0
  /\ ticks = 0
  /\ world = WorldSmall
  /\ jobs = {}
  /\ created = {}
  /\ job = [j \in JobIds |-> createJob(0)]
  /\ pc = [j \in JobIds |-> "idle"]
  /\ loc = [j \in JobIds |-> NoLoc]
  /\ ev = Event("init", "", "", NoSnap)
  /\ lastStep = [j \in JobIds |-> Brief(NoSnap)]
  /\ hist = [j \in JobIds |-> NoHist]
  /\ client = NoClient
  /\ pool = NoPool

(* on:click={loadReport}. *)
LoadReport(r) ==
  /\ client.run[r].pos = "none"
  /\ client' = StartLoad(client, r)
  /\ UNCHANGED ServerVars

LoadCached(r) ==
  /\ client.run[r].pos = "none"
  /\ client' = StartCached(client, r)
  /\ UNCHANGED ServerVars

(* The fetch a run awaits rejects with AbortError: its signal was aborted. *)
FetchAborted(r) ==
  /\ client.run[r].aborted
  /\ client.run[r].pos \in Abortable
  /\ client' = Finally(client, r, "threw")
  /\ UNCHANGED ServerVars

(* Line 383: the 150 ms between two steps are over. *)
Wake(r) ==
  /\ client.run[r].pos = "sleep"
  /\ client' = Fetch(client, r, "step", client.run[r].myJobId)
  /\ UNCHANGED ServerVars

(* The server answers request q; a create it answers with ok has made a   *)
(* job.  The answer reaches the run if the run still awaits it.            *)
Answer(q, resp) ==
  /\ q \in client.net
  /\ resp \in Answers(q.op)
  /\ resp = "running" => client.run[q.run].polls < MaxProgress
  /\ resp = "more" => client.run[q.run].pages < MaxMemberPages - 1
  /\ LET c1 == [client EXCEPT !.net = @ \ {q},
                              !.made = IF q.op = "create" /\ resp = "ok"
                                       THEN @ \cup {JobOf(q.run)} ELSE @]
     IN client' = IF Awaits(client, q) THEN Resume(c1, q.run, q, resp) ELSE c1
  /\ UNCHANGED ServerVars

NextClient ==
  \/ \E r \in Runs : LoadReport(r)
  \/ \E r \in Runs : LoadCached(r)
  \/ \E r \in Runs : FetchAborted(r)
  \/ \E r \in Runs : Wake(r)
  \/ \E q \in client.net : \E resp \in Answers(q.op) : Answer(q, resp)

(* One job against a remote API that answers every call successfully      *)
(* within its timeout and never with 429, for a client that calls step     *)
(* again after each answer and never lets the job expire.                  *)
LivePauses == 4

InitLive ==
  /\ now = 0
  /\ ticks = MaxTicks - LivePauses
  /\ world \in Worlds
  /\ jobs = {}
  /\ created = {}
  /\ job = [j \in JobIds |-> createJob(0)]
  /\ pc = [j \in JobIds |-> "idle"]
  /\ loc = [j \in JobIds |-> NoLoc]
  /\ ev = Event("init", "", "", NoSnap)
  /\ lastStep = [j \in JobIds |-> Brief(NoSnap)]
  /\ hist = [j \in JobIds |-> NoHist]
  /\ client = NoClient
  /\ pool = NoPool

(* The pending outbound call takes SlowCallMs and is still answered       *)
(* before its timer fires.                                                 *)
SlowAnswer ==
  /\ InFlight # {}
  /\ \A j \in InFlight : now + SlowCallMs < TimerAt(j)
  /\ Tick(SlowCallMs)

(* The client sends its next request at the last moment at which the      *)
(* sweep of line 217 still keeps the job.                                  *)
ClientWaits ==
  /\ InFlight = {}
  /\ "j1" \in jobs
  /\ Tick(job["j1"].updatedAtMs + JOB_TTL_MS - now)

NextLive ==
  \/ PostCreate("j1")
  \/ PostStep("j1")
  \/ CallReturns("j1", "ok")
  \/ SlowAnswer
  \/ ClientWaits

SpecLive == InitLive /\ [][NextLive]_vars


(* One job whose step may sleep for LongRetryAfterSeconds after a 429     *)
(* answer, while cleanup, status and results requests for it arrive and     *)
(* time passes.                                                            *)
OrphanPauses == 3

InitOrphan ==
  /\ now = 0
  /\ ticks = MaxTicks - OrphanPauses
  /\ world = WorldSmall
  /\ jobs = {}
  /\ created = {}
  /\ job = [j \in JobIds |-> createJob(0)]
  /\ pc = [j \in JobIds |-> "idle"]
  /\ loc = [j \in JobIds |-> NoLoc]
  /\ ev = Event("init", "", "", NoSnap)
  /\ lastStep = [j \in JobIds |-> Brief(NoSnap)]
  /\ hist = [j \in JobIds |-> NoHist]
  /\ client = NoClient
  /\ pool = NoPool

NextOrphan ==
  \/ PostCreate("j1")
  \/ PostStep("j1")
  \/ \E o \in {"ok", "rateLong"} : CallReturns("j1", o)
  \/ RetryStarts("j1")
  \/ PostCleanup("j1")
  \/ GetStatus("j1")
  \/ \E v \in Views : GetView("j1", v)
  \/ \E d \in TickSizes : Tick(d)
  \/ TimerFires("j1")

SpecOrphan == InitOrphan /\ [][NextOrphan]_vars


----------------------------------------------------------------------------
(* lib/server/intercom.ts, fetchContactsByIds: a pool of workers that      *)
(* share one index into the list of ids.                                   *)

(* Contact ids as the signature declares them, strings; "" is the one     *)
(* that filter(Boolean) drops, and String() leaves a string as it is.      *)
ContactIds == {"a", "b", ""}

(* Numbers are counted in halves, so that Math.floor has something to cut *)
(* off: Halves(3) is 1.5.                                                  *)
Halves(h) == Num(h)
Whole(n) == Num(2 * n)
MathFloor(x) == IF x.kind = "nan" THEN NaN ELSE Num(2 * (x.n \div 2))

(* ToLength of Array.from({ length: x }): NaN gives 0. *)
ToLength(x) == IF x.kind = "nan" THEN 0 ELSE Max(0, x.n \div 2)

(* opts.concurrency: left out, no number, or a number from 0 to MaxIds     *)
(* and a half.                                                             *)
ConcurrencyInputs == {NoParam, NaN} \cup {Halves(h) : h \in 0 .. 2 * MaxIds + 1}

SeqsUpTo(S, n) == UNION {[1 .. k -> S] : k \in 0 .. n}

(* [...new Set(contactIds)]: the first occurrence of every value, in order. *)
RECURSIVE Dedup(_)
Dedup(seq) ==
  IF seq = <<>> THEN <<>>
  ELSE LET front == Dedup(SubSeq(seq, 1, Len(seq) - 1))
           x == seq[Len(seq)]
       IN IF x \in Range(front) THEN front ELSE Append(front, x)

FilterBoolean(seq) == SelectSeq(seq, LAMBDA x : x # "")

(* Line 199. *)
DefaultConcurrency == 10

(* Lines 199 and 216-217: the number of workers started. *)
WorkerCount(p, ids) ==
  LET given == IF p.concurrency.kind = "absent" THEN Whole(DefaultConcurrency)
               ELSE p.concurrency
      concurrency == MathMax(2, MathFloor(given))
  IN ToLength(MathMin(2 * Len(ids), concurrency))

(* Lines 194-220 up to the await of Promise.all: every worker started runs *)
(* up to its first request, one after the other.                           *)
fetchContactsByIds(p) ==
  LET ids == FilterBoolean(Dedup(p.contactIds))
  IN IF Len(ids) = 0 THEN [p EXCEPT !.pos = "returned"]
     ELSE LET n == WorkerCount(p, ids)
          IN [p EXCEPT
                !.ids = ids,
                !.index = n,
                !.worker = [k \in Workers |->
                              IF k <= n THEN [pos |-> "wait", id |-> ids[k]] ELSE NoWorker],
                !.sent = SubSeq(ids, 1, n),
                !.pos = IF n = 0 THEN "returned" ELSE "running"]

(* Lines 202-214 and 219-222: the request of worker k ended; the worker    *)
(* stores the contact or reports the error, takes the next id or returns,  *)
(* and the call returns when the last worker has returned.                 *)
WorkerResumes(p, k, ok) ==
  LET id == p.worker[k].id
      p1 == [p EXCEPT !.result = IF ok THEN @ \cup {id} ELSE @,
                      !.failed = IF ok THEN @ ELSE @ \cup {id}]
      p2 == IF p1.index < Len(p1.ids)
            THEN [p1 EXCEPT !.worker[k] = [pos |-> "wait", id |-> p1.ids[p1.index + 1]],
                            !.index = @ + 1,
                            !.sent = Append(@, p1.ids[p1.index + 1])]
            ELSE [p1 EXCEPT !.worker[k] = [pos |-> "done", id |-> ""]]
  IN [p2 EXCEPT !.pos = IF \A w \in Workers : p2.worker[w].pos # "wait"
                        THEN "returned" ELSE @]

OtherVars == <<now, ticks, world, jobs, created, job, pc, loc, ev, lastStep, hist, client>>

InitPool ==
  /\ now = 0
  /\ ticks = 0
  /\ world = WorldSmall
  /\ jobs = {}
  /\ created = {}
  /\ job = [j \in JobIds |-> createJob(0)]
  /\ pc = [j \in JobIds |-> "idle"]
  /\ loc = [j \in JobIds |-> NoLoc]
  /\ ev = Event("init", "", "", NoSnap)
  /\ lastStep = [j \in JobIds |-> Brief(NoSnap)]
  /\ hist = [j \in JobIds |-> NoHist]
  /\ client = NoClient
  /\ pool \in {[NoPool EXCEPT !.contactIds = s, !.concurrency = c] :
                 s \in SeqsUpTo(ContactIds, MaxIds), c \in ConcurrencyInputs}

CallPool ==
  /\ pool.pos = "none"
  /\ pool' = fetchContactsByIds(pool)
  /\ UNCHANGED OtherVars

RequestEnds(k, ok) ==
  /\ pool.pos = "running"
  /\ pool.worker[k].pos = "wait"
  /\ pool' = WorkerResumes(pool, k, ok)
  /\ UNCHANGED OtherVars

NextPool ==
  \/ CallPool
  \/ \E k \in Workers, ok \in BOOLEAN : RequestEnds(k, ok)

SpecPool == InitPool /\ [][NextPool]_vars


SpecClient == InitClient /\ [][NextClient]_vars

TypeOK ==
  /\ jobs \subseteq created
  /\ \A j \in JobIds : pc[j] \in {"idle", "admins", "conv", "contacts", "fin_admins"}

----------------------------------------------------------------------------
(* Properties *)

PhaseRank(p) ==
  CASE p = "conversations" -> 0
    [] p = "contacts" -> 1
    [] p = "finalize" -> 2
    [] p = "complete" -> 3

(* C1: every change of a job's phase moves forward in the order           *)
(* conversations < contacts < finalize < complete; the phase never returns *)
(* to an earlier value.                                                    *)
C1_PhaseNeverRegresses ==
  [][\A j \in created : PhaseRank(job'[j].phase) >= PhaseRank(job[j].phase)]_vars

StatusEdges ==
  {<<"queued", "running">>, <<"running", "complete">>, <<"running", "error">>,
   <<"queued", "cancelled">>, <<"running", "cancelled">>}

(* C2: the status of a job changes only along queued->running,            *)
(* running->complete, running->error and non-terminal->cancelled; a        *)
(* terminal status is never changed to a different value.                  *)
C2_StatusEdgesOnly ==
  [][\A j \in created :
       job'[j].status = job[j].status \/ <<job[j].status, job'[j].status>> \in StatusEdges]_vars

Accumulators(jr) ==
  <<jr.sessions, jr.memberAgg, jr.memberIds, jr.pagesFetched, jr.conversationsFetched,
    jr.sessionsCount, jr.startingAfter>>

(* C4: once a job's status is complete, error or cancelled, its           *)
(* accumulators and its resume cursor keep their value in every later      *)
(* state.                                                                  *)
C4_TerminalAccumulatorsFrozen ==
  [][\A j \in created :
       Terminal(job[j].status) => Accumulators(job'[j]) = Accumulators(job[j])]_vars

(* C6: if cancel is applied while a step of the job is suspended, then    *)
(* once that step has returned the status is still cancelled and the phase *)
(* complete, and every step answered afterwards reports done = true.       *)
C6_CancelSurvivesSuspendedStep ==
  \A j \in created :
    (hist[j].cancelledInFlight /\ pc[j] = "idle") =>
       /\ job[j].status = "cancelled"
       /\ job[j].phase = "complete"
       /\ (ev.op = "step" /\ ev.id = j /\ ev.snap.code = 200) => ev.snap.done

(* C3: a step call on a job whose status is complete, error or cancelled  *)
(* returns the same (status, phase, done, error) as the previous step call *)
(* answered for a terminal status of that job, starts no outbound call and *)
(* leaves every field of the job unchanged.                                *)
C3_TerminalStepRepeats ==
  [][\A j \in created :
       (ev'.op = "step" /\ ev'.id = j /\ ev'.outcome = "terminal") =>
          /\ job'[j] = job[j]
          /\ pc'[j] = "idle"
          /\ Terminal(lastStep[j].status) => Brief(ev'.snap) = lastStep[j]]_vars

CancelFrame(jr) ==
  <<jr.startingAfter, jr.sessions, jr.memberAgg, jr.memberIds, jr.pagesFetched,
    jr.conversationsFetched, jr.sessionsCount, jr.consecutiveAbortErrors,
    jr.adminCache, jr.contactCache>>

(* C5: cancel on a known job sets its status to cancelled and its phase   *)
(* to complete and answers {status: cancelled, done: true}; the job's      *)
(* cursor, accumulators, progress counters, failure counter and caches are *)
(* unchanged, and so is every other job and its running step.              *)
C5_CancelFrame ==
  [][(ev'.op = "cancel" /\ ev'.snap.code = 200) =>
       LET j == ev'.id
       IN /\ job'[j].status = "cancelled"
          /\ job'[j].phase = "complete"
          /\ ev'.snap.status = "cancelled"
          /\ ev'.snap.done
          /\ CancelFrame(job'[j]) = CancelFrame(job[j])
          /\ \A k \in JobIds \ {j} : job'[k] = job[k] /\ pc'[k] = pc[k] /\ loc'[k] = loc[k]]_vars

(* A cancel answered for a job that has folded sessions and counted a     *)
(* timeout, while another job is running.                                  *)
C5_Witness ==
  /\ ev.op = "cancel"
  /\ ev.snap.code = 200
  /\ job[ev.id].sessions # <<>>
  /\ job[ev.id].consecutiveAbortErrors > 0
  /\ \E k \in jobs \ {ev.id} : job[k].status = "running"

(* A paging or chunk request of job j ends with AbortError in this step.  *)
SoftCallAborts(j) ==
  /\ pc[j] \in {"conv", "contacts"}
  /\ ev'.op = "call" /\ ev'.id = j /\ ev'.outcome = "abort"

ConvAccumulators(jr) ==
  <<jr.sessions, jr.memberAgg, jr.memberIds, jr.pagesFetched, jr.conversationsFetched,
    jr.sessionsCount>>

SoftAbortFrame(j) ==
  /\ pc'[j] = "idle"
  /\ job'[j].consecutiveAbortErrors = job[j].consecutiveAbortErrors + 1
  /\ job'[j].phase = job[j].phase
  /\ job'[j].startingAfter = job[j].startingAfter
  /\ ConvAccumulators(job'[j]) = ConvAccumulators(job[j])
  /\ ~ev'.snap.done

C8_SuccessResetsCounter ==
  (ev.op = "call" /\ ev.outcome = "ok") => job[ev.id].consecutiveAbortErrors = 0

(* C9: a job's status becomes error only when an outbound call failed     *)
(* with a non-timeout error or when the consecutive-failure counter        *)
(* reached 3.                                                              *)
C9_ErrorOnlyFatalOrExhausted ==
  [][\A j \in created :
       (job'[j].status = "error" /\ job[j].status # "error") =>
          \/ ev'.op = "call" /\ ev'.id = j /\ ev'.outcome = "fatal"
          \/ job'[j].consecutiveAbortErrors >= AbortLimit]_vars

(* Every step and status response for a failed job carries the message    *)
(* of the error that failed it.                                            *)
ErrorMessageReported ==
  \A j \in created :
    (hist[j].failMessage # NoError /\ ev.op \in {"step", "status"} /\ ev.id = j
       /\ ev.snap.code = 200 /\ pc[j] = "idle")
    => ev.snap.error = hist[j].failMessage

----------------------------------------------------------------------------
(* The request client: 429 retries, time gates and timeouts *)

(* The caller of job j's pending request received and used its payload. *)
ResponseUsed(j) ==
  CASE pc[j] \in {"admins", "fin_admins"} ->
         job'[j].adminCache = [fetchedAtMs |-> loc[j].reqStart]
    [] pc[j] = "conv" -> job'[j].pagesFetched = job[j].pagesFetched + 1
    [] pc[j] = "contacts" -> Range(ChunkOf(loc[j])) \subseteq DOMAIN job'[j].contactCache

(* C11: a request answered 429 on every attempt makes exactly MAX_RETRIES *)
(* attempts and then fails; answered 429 on k < MAX_RETRIES attempts and   *)
(* then with success, it makes exactly k + 1 attempts and its caller gets  *)
(* the successful response.                                                *)
C11_RetryBound ==
  [][\A j \in created :
       (pc[j] # "idle" /\ ev'.op = "call" /\ ev'.id = j) =>
          LET k == hist[j].rates
              n == hist[j].attempts
          IN /\ n = k + 1
             /\ n <= MAX_RETRIES
             /\ ev'.outcome \in RateOutcomes =>
                   IF n < MAX_RETRIES
                   THEN /\ pc'[j] = pc[j]
                        /\ loc'[j].wakeAt > now
                        /\ job'[j] = job[j]
                   ELSE /\ pc'[j] = "idle"
                        /\ job'[j].error = RateMessage
             /\ ev'.outcome = "ok" =>
                   /\ k < MAX_RETRIES
                   /\ loc'[j].wakeAt = 0
                   /\ ResponseUsed(j)]_vars

(* A contacts request answered 429 twice and then with success: three     *)
(* attempts were made and the step went on to complete the job.            *)
C11_Witness ==
  /\ ev.op = "call" /\ ev.outcome = "ok"
  /\ pc[ev.id] = "idle"
  /\ hist[ev.id].rates = MAX_RETRIES - 1
  /\ hist[ev.id].attempts = MAX_RETRIES
  /\ job[ev.id].status = "complete"

(* C12: a 429 answer is never the reported cause of a job failure: no job *)
(* has status error with the message of a 429 answer.                      *)
C12_RateLimitNeverFailsJob ==
  \A j \in created : ~(job[j].status = "error" /\ job[j].error = RateMessage)

(* An attempt of job j's step is in flight. *)
AttemptInFlight(j) == pc[j] # "idle" /\ loc[j].wakeAt = 0

(* C13: no outbound attempt of a step, first or retried, in any phase, is *)
(* started when the time left to the step deadline is below                *)
(* MIN_TIME_TO_START_REQUEST_MS.                                           *)
C13_AttemptsStartWithTimeLeft ==
  \A j \in JobIds :
    AttemptInFlight(j) =>
      timeLeftMs(loc[j].deadlineMs, loc[j].callStart) >= MIN_TIME_TO_START_REQUEST_MS

(* Date.now() at the start of the running step of job j (line 647). *)
StepStart(j) == loc[j].deadlineMs - (STEP_BUDGET_MS - STEP_SAFETY_MS)

(* C14: a step has returned once STEP_BUDGET_MS plus the longest duration *)
(* of one outbound call (maxTimeout) has passed since it started.          *)
C14_StepWithinBudgetPlusCall ==
  \A j \in JobIds :
    pc[j] # "idle" => now - StepStart(j) <= STEP_BUDGET_MS + maxTimeout

(* C15: every outbound attempt of a step has a timeout within             *)
(* [minTimeout, maxTimeout] that ends no later than the step deadline.     *)
C15_TimeoutEndsBeforeDeadline ==
  \A j \in JobIds :
    AttemptInFlight(j) =>
      /\ loc[j].timeoutMs >= minTimeout
      /\ loc[j].timeoutMs <= maxTimeout
      /\ loc[j].callStart + loc[j].timeoutMs <= loc[j].deadlineMs

----------------------------------------------------------------------------
(* Aggregation and paging *)

(* The session rows of member m among a set of rows. *)
RowsOf(rows, m) == {s \in rows : s.memberId = m}

MaxTime(rows) == CHOOSE t \in {s.time : s \in rows} : \A s \in rows : s.time <= t

(* C16: for every member of the aggregate map, lastSessionAt is the       *)
(* largest time, the channel set the set of channels and the coach set the *)
(* set of non-null coach ids of the session rows folded for that member;   *)
(* the members of the map are the members of the rows folded, whatever     *)
(* pages and steps the rows arrived in.                                    *)
C16_AggregatesMatchRows ==
  \A j \in created :
    LET rows == Range(job[j].sessions)
    IN /\ DOMAIN job[j].memberAgg = {s.memberId : s \in rows}
       /\ Range(job[j].memberIds) = DOMAIN job[j].memberAgg
       /\ \A m \in DOMAIN job[j].memberAgg :
            /\ job[j].memberAgg[m].lastSessionAt = MaxTime(RowsOf(rows, m))
            /\ job[j].memberAgg[m].channels = {s.channel : s \in RowsOf(rows, m)}
            /\ job[j].memberAgg[m].coachIds = {s.coachId : s \in RowsOf(rows, m)} \ {""}

(* Member 1's two sessions arrived on different pages fetched by          *)
(* different steps (the first step ended in the conversations phase).      *)
C16_Witness ==
  /\ world = WorldSplit
  /\ "j1" \in created
  /\ lastStep["j1"].phase = "conversations"
  /\ job["j1"].pagesFetched = 2
  /\ job["j1"].memberAgg[1] = [lastSessionAt |-> DayAgo(1), channels |-> {"Phone", "Email"},
                               coachIds |-> {"a1", "a2"}]
  /\ job["j1"].memberAgg[2].coachIds = {}

----------------------------------------------------------------------------
(* Buckets *)

Days(n) == n * SECONDS_PER_DAY

TrueBuckets(b) == {k \in DOMAIN b : b[k]}

----------------------------------------------------------------------------
(* Paging *)

(* The conversations of the first n pages of the cursor chain, in order. *)
RECURSIVE FirstPages(_, _)
FirstPages(w, n) == IF n = 0 THEN <<>> ELSE FirstPages(w, n - 1) \o w.pages[n]

IsSession(conv) == parseSessionFromConversation(conv) # NoSession

(* Job j has folded the first pagesFetched pages of the chain, each once, *)
(* and its cursor points at the next one.                                  *)
PagesFoldedOnce(j) ==
  LET n == job[j].pagesFetched
  IN /\ n <= Len(world.pages)
     /\ job[j].conversationsFetched = Len(FirstPages(world, n))
     /\ job[j].sessions = SelectSeq(FirstPages(world, n), IsSession)
     /\ job[j].sessionsCount = Len(job[j].sessions)
     /\ job[j].startingAfter = IF n = 0 \/ n = Len(world.pages) THEN NoCursor ELSE n + 1

(* C18 as stated: when a job leaves the conversations phase,              *)
(* conversationsFetched is the number of conversations of all pages of the *)
(* cursor chain and pagesFetched the number of pages.                      *)
C18_LeavingConversationsHasAllPages ==
  [][\A j \in created :
       (job[j].phase = "conversations" /\ job'[j].phase # "conversations") =>
          /\ job'[j].pagesFetched = Len(world.pages)
          /\ job'[j].conversationsFetched = Len(FirstPages(world, Len(world.pages)))]_vars

(* C18 amended: when a job's phase is set to contacts, pagesFetched is    *)
(* the number of pages of the cursor chain and conversationsFetched the    *)
(* number of their conversations; in every state the job has folded a      *)
(* prefix of the chain, every page of it exactly once, also after timed    *)
(* out page calls were repeated by later steps.                            *)
C18_PagingDoneHasAllPages ==
  [][\A j \in created :
       /\ PagesFoldedOnce(j)'
       /\ (job'[j].phase = "contacts" /\ job[j].phase # "contacts") =>
             /\ job'[j].pagesFetched = Len(world.pages)
             /\ job'[j].conversationsFetched = Len(FirstPages(world, Len(world.pages)))]_vars

(* Paging of the two-page chain finished in a step that followed a step   *)
(* ended by the timeout of a page call (the only advance of the clock was  *)
(* to the timer of that call).                                             *)
C18_Witness ==
  /\ world = WorldSplit
  /\ ticks = 1 /\ now = defaultTimeout
  /\ lastStep["j1"].phase = "conversations"
  /\ job["j1"].phase = "contacts"
  /\ job["j1"].pagesFetched = 2
  /\ job["j1"].conversationsFetched = 4

----------------------------------------------------------------------------
(* Finalized fields *)

FinalFields(jr) == <<jr.finalized, jr.generatedAt, jr.summary, jr.members, jr.totalMembers>>

(* None of the finalized fields has been assigned. *)
Unset(jr) == FinalFields(jr) = FinalFields(createJob(0))

SummaryTotal(sm) == sm.bucket_1 + sm.bucket_2 + sm.bucket_3 + sm.bucket_4

(* C19: generatedAt, summary, members and totalMembers are unset until    *)
(* the status becomes complete and are all set in the step that makes it   *)
(* complete; then totalMembers is the number of member rows and the four   *)
(* summary buckets add up to totalMembers.  A job in status error has none *)
(* of them set.                                                            *)
C19_FinalFieldsSetWithComplete ==
  [][\A j \in created :
       /\ (\/ FinalFields(job'[j]) # FinalFields(job[j])
           \/ job'[j].status = "complete" /\ job[j].status # "complete") =>
             /\ Unset(job[j])
             /\ job[j].status # "complete"
             /\ job'[j].status = "complete"
             /\ job'[j].finalized
             /\ job'[j].generatedAt > 0
             /\ job'[j].totalMembers = Len(job'[j].members)
             /\ SummaryTotal(job'[j].summary) = job'[j].totalMembers
       /\ job'[j].status = "error" => Unset(job'[j])]_vars

(* The step that completed the job of the small world answered done with *)
(* two member rows, one in bucket_1 and one in bucket_3.                   *)
C19_Witness ==
  /\ ev.op = "call" /\ ev.snap.status = "complete" /\ ev.snap.done
  /\ job[ev.id].totalMembers = 2
  /\ Len(job[ev.id].members) = 2
  /\ job[ev.id].summary = [NoSummary EXCEPT !.bucket_1 = 1, !.bucket_3 = 1]

----------------------------------------------------------------------------
(* Contact cache *)

(* The ids with an entry of cache that a read at time t returns: those    *)
(* stored no longer than CONTACT_CACHE_TTL_MS before t.                    *)
Fresh(cache, t) == {id \in DOMAIN cache : t <= cache[id].expiresAtMs}

(* A step of job j enters hydrateContactsByIds in this transition. *)
HydrationStarts(j) == pc[j] # "contacts" /\ pc'[j] = "contacts" /\ loc'[j].i = 0

(* C20: an entry stored at T is returned by every read at t <= T + TTL    *)
(* (it stays in the cache and its id is not counted as missing nor         *)
(* requested); a read at t > T + TTL counts the id as missing and removes  *)
(* the entry, and the next hydration requests exactly the member ids       *)
(* without a returned entry.                                               *)
C20_CacheEntryLivesTTL ==
  [][\A j \in created :
       LET c == job[j].contactCache
           c2 == job'[j].contactCache
           ids == Range(job'[j].memberIds)
       IN /\ \A id \in DOMAIN c2 : c2[id].expiresAtMs <= now' + CONTACT_CACHE_TTL_MS
          /\ Fresh(c, now') \subseteq DOMAIN c2
          /\ (ev'.id = j /\ ev'.snap.missingContacts # -1) =>
                /\ ev'.snap.missingContacts = Cardinality(ids \ Fresh(c2, now'))
                /\ ids \cap DOMAIN c2 \subseteq Fresh(c2, now')
          /\ HydrationStarts(j) =>
                /\ Range(loc'[j].missing) = ids \ Fresh(c, now')
                /\ ids \cap DOMAIN c2 \subseteq Fresh(c2, now')
                /\ ChunkOf(loc'[j]) # <<>>]_vars

(* After a completed job was kept for CONTACT_CACHE_TTL_MS, a status read *)
(* at exactly the expiry of the entry of member 16 still returns it, while *)
(* the 15 entries stored earlier are counted as missing and removed.       *)
C20_BoundaryRead ==
  /\ ev.op = "status" /\ ev.snap.missingContacts = CONTACT_CHUNK_SIZE
  /\ job["j1"].finalized
  /\ DOMAIN job["j1"].contactCache = {CONTACT_CHUNK_SIZE + 1}
  /\ now = job["j1"].contactCache[CONTACT_CHUNK_SIZE + 1].expiresAtMs
  /\ hist["j1"].stored = Range(job["j1"].memberIds)

(* A step of a job that stayed in the contacts phase for longer than      *)
(* CONTACT_CACHE_TTL_MS requests member 1 again: its entry had been stored *)
(* and, read after it expired, is no longer in the cache.                  *)
C20_Witness ==
  /\ pc["j1"] = "contacts" /\ loc["j1"].i = 0
  /\ 1 \in Range(ChunkOf(loc["j1"]))
  /\ 1 \in hist["j1"].stored
  /\ 1 \notin DOMAIN job["j1"].contactCache
  /\ now > CONTACT_CACHE_TTL_MS

----------------------------------------------------------------------------
(* Not-found placeholders *)

(* The ids of the contacts request of job j that is answered in this      *)
(* transition; empty when no contacts request of j is answered.            *)
AnsweredChunk(j) ==
  IF ev'.op = "call" /\ ev'.id = j /\ ev'.outcome = "ok" /\ pc[j] = "contacts"
  THEN Range(ChunkOf(loc[j])) ELSE {}

(* The ids with an unexpired not-found placeholder in cache at time t. *)
NotFoundFresh(cache, t) == {id \in Fresh(cache, t) : cache[id].notFound}

(* C21: an id the contacts search does not return is part of an answered  *)
(* contacts request only when no entry for it was stored during the last   *)
(* CONTACT_CACHE_TTL_MS; the answer stores a not-found entry for it that   *)
(* lives CONTACT_CACHE_TTL_MS; while that entry is unexpired the id is not *)
(* counted as missing, is not in the missing list of a hydration pass and  *)
(* is not in any chunk that is requested.                                  *)
C21_NotFoundRequestedOncePerWindow ==
  [][\A j \in created :
       LET c == job[j].contactCache
           c2 == job'[j].contactCache
           ids == Range(job'[j].memberIds)
       IN /\ \A id \in AnsweredChunk(j) \cap world.notReturned :
               /\ id \notin Fresh(c, now)
               /\ id \in NotFoundFresh(c2, now')
               /\ c2[id].expiresAtMs = now' + CONTACT_CACHE_TTL_MS
          /\ (ev'.id = j /\ ev'.snap.missingContacts # -1) =>
               ev'.snap.missingContacts <= Cardinality(ids \ NotFoundFresh(c2, now'))
          /\ HydrationStarts(j) =>
               Range(loc'[j].missing) \cap NotFoundFresh(c, now') = {}
          /\ (pc'[j] = "contacts" /\ loc'[j] # loc[j]) =>
               Range(ChunkOf(loc'[j])) \cap NotFoundFresh(c2, now') = {}]_vars

(* A later step of the job hydrates while the placeholder of id 2, which  *)
(* the search never returns, is unexpired: it requests member 16 only.     *)
C21_Witness ==
  /\ pc["j1"] = "contacts"
  /\ 2 \in world.notReturned
  /\ 2 \in NotFoundFresh(job["j1"].contactCache, now)
  /\ StepStart("j1") > job["j1"].contactCache[2].expiresAtMs - CONTACT_CACHE_TTL_MS
  /\ 2 \notin Range(loc["j1"].missing)
  /\ ChunkOf(loc["j1"]) # <<>>

----------------------------------------------------------------------------
(* Contacts phase *)

(* Every member id of jr has an unexpired cache entry at time t. *)
Resolved(jr, t) == Range(jr.memberIds) \subseteq Fresh(jr.contactCache, t)

(* The phase of job j leaves conversations or contacts for finalize in    *)
(* this transition (the same step may go on to finalize the job).          *)
MovesToFinalize(j) ==
  /\ job[j].phase \in {"conversations", "contacts"}
  /\ job'[j].phase = "finalize" \/ (job'[j].finalized /\ ~job[j].finalized)

(* A step of job j returns in this transition, after its hydration ended, *)
(* with the job in phase contacts.                                         *)
ReturnsInContacts(j) ==
  /\ ev'.id = j /\ ev'.op \in {"step", "call"} /\ ev'.outcome # "abort"
  /\ pc'[j] = "idle"
  /\ ev'.snap.code = 200 /\ ev'.snap.phase = "contacts"

(* C22: the phase moves on to finalize only in a step at the end of whose *)
(* hydration every member id has an unexpired cache entry, and a step      *)
(* whose hydration ended returns in phase contacts only when some member   *)
(* id has none; a job without member ids is never suspended on a contacts  *)
(* call.                                                                   *)
C22_FinalizeIffAllResolved ==
  [][\A j \in created :
       /\ MovesToFinalize(j) =>
            /\ ev'.id = j /\ ev'.op \in {"step", "call"}
            /\ Resolved(job'[j], now')
       /\ ReturnsInContacts(j) => ~Resolved(job'[j], now')
       /\ job'[j].memberIds = <<>> => pc'[j] # "contacts"]_vars

(* A step whose time ran out after the first chunk returned in phase      *)
(* contacts: 15 member ids are resolved, one is not.                       *)
C22_Witness ==
  /\ ev.op = "call" /\ ev.outcome = "ok" /\ pc["j1"] = "idle"
  /\ ev.snap.phase = "contacts" /\ job["j1"].phase = "contacts"
  /\ ev.snap.missingContacts = 1
  /\ Cardinality(Fresh(job["j1"].contactCache, now)) = CONTACT_CHUNK_SIZE

(* A job whose pages hold no session was finalized without any contacts   *)
(* call: nothing was ever written to its cache.                            *)
C22_WitnessEmpty ==
  /\ job["j1"].finalized /\ job["j1"].status = "complete"
  /\ job["j1"].memberIds = <<>> /\ job["j1"].pagesFetched = 1
  /\ hist["j1"].stored = {}

----------------------------------------------------------------------------
(* Registry *)

(* The operations a client requests by POST or GET. *)
RequestOps == {"create", "step", "cancel", "cleanup", "status"} \cup Views

(* The jobs of the registry last updated more than JOB_TTL_MS before t. *)
Expired(t) == {id \in jobs : t - job[id].updatedAtMs > JOB_TTL_MS}

(* C23: every request first removes from the registry the jobs last       *)
(* updated more than JOB_TTL_MS before the request time and no other job   *)
(* (after that, create adds its new job and cleanup deletes the job it     *)
(* names); step, cancel, status and results that name a job the sweep      *)
(* removed, now or earlier, are answered 404.                              *)
C23_SweepRemovesExactlyExpired ==
  [][ev'.op \in RequestOps =>
       LET kept == jobs \ Expired(now')
       IN /\ jobs' = (kept \cup (IF ev'.op = "create" THEN {ev'.id} ELSE {}))
                       \ (IF ev'.op = "cleanup" THEN {ev'.id} ELSE {})
          /\ (ev'.op \in RequestOps \ {"create", "cleanup"} /\ ev'.id \notin kept)
               => ev'.snap.code = 404]_vars

(* A status request found its job last updated more than JOB_TTL_MS ago:  *)
(* its sweep removed the job and it was answered 404.                      *)
C23_Witness ==
  /\ ev.op = "status" /\ ev.id = "j1" /\ ev.outcome = "swept" /\ ev.snap.code = 404
  /\ "j1" \in created \ jobs
  /\ now - job["j1"].updatedAtMs > JOB_TTL_MS
  /\ job["j1"].pagesFetched > 0

(* C24: step, cancel, status and results that name a job id which is not  *)
(* in the registry are answered 404, leave every job and every suspended   *)
(* step as they are and add nothing to the registry.                       *)
C24_UnknownJobNotFound ==
  [][(ev'.op \in RequestOps \ {"create", "cleanup"} /\ ev'.id \notin jobs) =>
       /\ ev'.snap.code = 404
       /\ job' = job /\ pc' = pc /\ loc' = loc
       /\ jobs' \subseteq jobs
       /\ ev'.id \notin jobs']_vars

(* A cancel of a job that cleanup had deleted was answered 404 and left   *)
(* the job record as the last step had left it.                            *)
C24_Witness ==
  /\ ev.op = "cancel" /\ ev.id = "j1" /\ ev.outcome = "" /\ ev.snap.code = 404
  /\ "j1" \in created \ jobs
  /\ job["j1"].status = "running" /\ job["j1"].pagesFetched > 0
  /\ now - job["j1"].updatedAtMs <= JOB_TTL_MS

(* C25: cleanup answers 200 for every id and reports deleted exactly when *)
(* the id was in the registry just before the request; afterwards the id   *)
(* is absent, a cleanup that directly follows a cleanup of the same id     *)
(* reports not deleted, and no job record is changed.                      *)
C25_CleanupReportsDeletion ==
  [][ev'.op = "cleanup" =>
       /\ ev'.snap.code = 200
       /\ (ev'.outcome = "deleted") <=> (ev'.id \in jobs)
       /\ ev'.id \notin jobs'
       /\ (ev.op = "cleanup" /\ ev.id = ev'.id) => ev'.outcome = "absent"
       /\ job' = job /\ pc' = pc /\ loc' = loc]_vars

----------------------------------------------------------------------------
(* Results *)

(* C26: a results request (summary, members, sessions) for a job that is  *)
(* in the registry and whose status is not complete is answered 409 with   *)
(* a body without items, and leaves the job, its suspended step and the    *)
(* registry as they are.                                                   *)
C26_ResultsBeforeCompleteConflict ==
  [][(/\ ev'.op \in {"summary", "members", "sessions"}
      /\ ev'.id \in jobs \ Expired(now')
      /\ job[ev'.id].status # "complete") =>
       /\ ev'.snap.code = 409
       /\ DOMAIN ev'.snap \cap {"items", "nextOffset", "total", "summary"} = {}
       /\ job' = job /\ pc' = pc /\ loc' = loc
       /\ jobs' = jobs]_vars

(* A sessions request for a job whose step had failed was answered 409. *)
C26_Witness ==
  /\ ev.op = "sessions" /\ ev.id = "j1" /\ ev.snap.code = 409
  /\ ev.snap.status = "error" /\ job["j1"].status = "error"
  /\ job["j1"].sessions # <<>>

(* The rows of a list at the 0-based positions lo, ..., hi - 1 it has. *)
RowsAt(rows, lo, hi) == SubSeq(rows, Max(lo, 0) + 1, Min(hi, Len(rows)))

(* A limit clamped to 1..maxLimit; defaultLimit when none was sent. *)
Clamped(ql) == Min(maxLimit, Max(1, IF ql.kind = "absent" THEN defaultLimit ELSE ql.n))

(* fetchAllMembers: the pages from `offset` on, each requested with the   *)
(* nextOffset of the one before, until a page carries none; at most fuel   *)
(* requests.                                                               *)
RECURSIVE FetchFrom(_, _, _, _)
FetchFrom(rows, offset, ql, fuel) ==
  LET page == PageOf(rows, ParseOffset(Num(offset)), ParseLimit(ql))
      rest == FetchFrom(rows, page.nextOffset, ql, fuel - 1)
  IN IF fuel = 0 THEN [items |-> <<>>, requests |-> 0, ended |-> FALSE]
     ELSE IF page.nextOffset = NoOffset
     THEN [items |-> page.items, requests |-> 1, ended |-> TRUE]
     ELSE [items |-> page.items \o rest.items, requests |-> 1 + rest.requests,
           ended |-> rest.ended]

(* A members page was served for numeric (or absent) offset and limit. *)
MembersPageServed ==
  /\ ev'.op = "members" /\ ev'.snap.code = 200
  /\ ev'.snap.offset.kind # "nan" /\ ev'.snap.limit.kind # "nan"

----------------------------------------------------------------------------
(* Status *)

(* The fields of a job a status request has no business with. *)
StatusFrame(jr) ==
  <<jr.status, jr.phase, jr.error, jr.startingAfter,
    jr.pagesFetched, jr.conversationsFetched, jr.sessionsCount,
    jr.sessions, jr.memberIds, jr.memberAgg, jr.consecutiveAbortErrors,
    jr.finalized, jr.generatedAt, jr.totalMembers, jr.summary, jr.members,
    jr.createdAtMs, jr.updatedAtMs, jr.adminCache>>

(* C28: a status request answered for a job in the registry leaves the    *)
(* job's status, phase, cursor, accumulators, failure counter, finalized   *)
(* fields and last-updated time as they were, does not move a suspended    *)
(* step, and leaves the job in the registry only because of the age it had *)
(* before the request; all it may change of the job is its contact cache,  *)
(* from which the entries it read expired are gone.                        *)
C28_StatusReadsOnly ==
  [][(ev'.op = "status" /\ ev'.snap.code = 200) =>
       /\ StatusFrame(job'[ev'.id]) = StatusFrame(job[ev'.id])
       /\ \A j \in JobIds \ {ev'.id} : job'[j] = job[j]
       /\ pc' = pc /\ loc' = loc /\ lastStep' = lastStep
       /\ jobs' = jobs \ Expired(now')
       /\ DOMAIN job'[ev'.id].contactCache \subseteq DOMAIN job[ev'.id].contactCache
       /\ ev'.snap.status = job[ev'.id].status /\ ev'.snap.phase = job[ev'.id].phase]_vars

(* A status request was answered for a finalized job some of whose cache  *)
(* entries had expired and are gone, at a time later than the job's last   *)
(* update.                                                                 *)
C28_Witness ==
  /\ ev.op = "status" /\ ev.id = "j1" /\ ev.snap.code = 200
  /\ job["j1"].finalized /\ ev.snap.done
  /\ ev.snap.missingContacts > 0
  /\ DOMAIN job["j1"].contactCache # hist["j1"].stored
  /\ now > job["j1"].updatedAtMs

----------------------------------------------------------------------------
(* Create *)

(* The accumulators of a job nothing was fetched for. *)
EmptyAccumulators(jr) ==
  /\ jr.pagesFetched = 0 /\ jr.conversationsFetched = 0 /\ jr.sessionsCount = 0
  /\ jr.memberIds = <<>> /\ jr.memberAgg = EmptyMap /\ jr.sessions = <<>>
  /\ jr.startingAfter = NoCursor
  /\ jr.contactCache = EmptyMap /\ jr.adminCache = NoCache
  /\ jr.consecutiveAbortErrors = 0 /\ ~jr.finalized

(* C29: a create whose lookback is no number or not positive, or whose    *)
(* upper end was sent and is no number or not positive, is answered 400    *)
(* and adds no job; every other create is answered 200 and adds exactly    *)
(* one job, under an id never used before, queued, in phase conversations, *)
(* with empty accumulators, created and updated now, and with the lookback *)
(* of the request or 365 days when that is more; no other job changes.     *)
C29_CreateValidates ==
  [][ev'.op = "create" =>
       LET lb == ev'.snap.lookbackRaw
           un == ev'.snap.untilRaw
           bad == \/ lb.kind # "num" \/ lb.n <= 0
                  \/ un.kind = "nan" \/ (un.kind = "num" /\ un.n <= 0)
       IN IF bad
          THEN /\ ev'.snap.code = 400
               /\ jobs' = jobs \ Expired(now') /\ created' = created /\ job' = job
          ELSE /\ ev'.snap.code = 200
               /\ ev'.id \in JobIds \ created
               /\ created' = created \cup {ev'.id}
               /\ jobs' = (jobs \ Expired(now')) \cup {ev'.id}
               /\ \A j \in JobIds \ {ev'.id} : job'[j] = job[j]
               /\ LET jr == job'[ev'.id]
                  IN /\ jr.status = "queued" /\ jr.phase = "conversations"
                     /\ jr.error = NoError
                     /\ EmptyAccumulators(jr)
                     /\ jr.createdAtMs = now' /\ jr.updatedAtMs = now'
                     /\ jr.lookbackDays = Min(lb.n, maxLookbackDays)
                     /\ jr.lookbackDays <= maxLookbackDays
                     /\ jr.sinceUnix = EpochUnix + (now' \div 1000)
                                         - jr.lookbackDays * SECONDS_PER_DAY
                     /\ ev'.snap.lookbackDays = jr.lookbackDays
                     /\ ev'.snap.status = "queued"]_vars

(* A second job was created with a lookback of 366 days while the first   *)
(* had fetched its page: it is queued, empty, and looks back 365 days.     *)
C29_Witness ==
  /\ ev.op = "create" /\ ev.id = "j2" /\ ev.snap.code = 200
  /\ ev.snap.lookbackRaw = Num(maxLookbackDays + 1)
  /\ job["j2"].lookbackDays = maxLookbackDays
  /\ jobs = {"j1", "j2"}
  /\ job["j1"].pagesFetched > 0
  /\ job["j2"].status = "queued" /\ job["j2"].pagesFetched = 0

(* A create without a lookback was answered 400 and added nothing to a    *)
(* registry that holds one job.                                            *)
C29_WitnessRejected ==
  /\ ev.op = "create" /\ ev.snap.code = 400 /\ ev.snap.lookbackRaw = NoParam
  /\ jobs = {"j1"} /\ created = {"j1"}

----------------------------------------------------------------------------
(* Isolation of jobs *)

(* Job a is stepped (a request, or the return of the call its step is     *)
(* suspended on), cancelled or cleaned up in this transition.              *)
ActsOn(a) == ev'.id = a /\ ev'.op \in {"step", "call", "cancel", "cleanup"}

(* C30: a step, cancel or cleanup of job a leaves the record of every     *)
(* other job b (status, phase, cursor, accumulators, caches, every other   *)
(* field), b's suspended step and the last step response for b as they     *)
(* are, and removes b from the registry only when b was last updated more  *)
(* than JOB_TTL_MS ago; it never adds b.                                   *)
C30_OtherJobsUntouched ==
  [][\A a \in JobIds : ActsOn(a) =>
       \A b \in JobIds \ {a} :
         /\ job'[b] = job[b]
         /\ pc'[b] = pc[b] /\ loc'[b] = loc[b]
         /\ lastStep'[b] = lastStep[b]
         /\ b \in jobs' => b \in jobs
         /\ b \in jobs \ jobs' => b \in Expired(now')]_vars

(* The call of a step of job j1 returned and finalized j1 while a step of *)
(* job j2 was suspended on its contacts call.                              *)
C30_Witness ==
  /\ ev.op = "call" /\ ev.id = "j1"
  /\ job["j1"].status = "complete" /\ job["j1"].finalized
  /\ pc["j2"] = "contacts" /\ job["j2"].status = "running"
  /\ job["j2"].sessionsCount = job["j1"].sessionsCount
  /\ jobs = {"j1", "j2"}

(* A request for job j1 swept job j2, which had expired, and kept j1. *)
C30_WitnessSwept ==
  /\ ev.op = "step" /\ ev.id = "j1" /\ ev.snap.code = 200
  /\ jobs = {"j1"} /\ created = {"j1", "j2"}
  /\ now - job["j2"].updatedAtMs > JOB_TTL_MS
  /\ job["j2"].pagesFetched > 0

----------------------------------------------------------------------------
(* Error kinds *)

(* The call that ended in this transition was reported to the step of job *)
(* j as the timeout kind: the soft-retry counter went up, or the job failed *)
(* with the message of an aborted request.                                 *)
ReportedAsTimeout(j) ==
  \/ job'[j].consecutiveAbortErrors = job[j].consecutiveAbortErrors + 1
  \/ job[j].status # "error" /\ job'[j].status = "error" /\ job'[j].error = AbortMessage

(* The call ended with an answer that is not 2xx and is not retried. *)
RemoteFailure(j) ==
  \/ ev'.outcome \in ErrorOutcomes
  \/ ev'.outcome \in RateOutcomes /\ ~Retries(loc[j], ev'.outcome)

(* C31: a call ended by its timer is reported to the step as the timeout  *)
(* kind; a call that failed with a non-2xx answer that is not retried is    *)
(* not, whatever its status and body text: it fails the job and leaves the  *)
(* soft-retry counter alone; the counter goes up only for the timeout kind. *)
C31_TimeoutKindOnlyForTimeouts ==
  [][\A j \in created : (ev'.op = "call" /\ ev'.id = j) =>
       /\ ev'.outcome = "abort" => ReportedAsTimeout(j)
       /\ RemoteFailure(j) =>
            /\ ~ReportedAsTimeout(j)
            /\ job'[j].status = "error"
       /\ job'[j].consecutiveAbortErrors > job[j].consecutiveAbortErrors
            => ev'.outcome = "abort"]_vars

----------------------------------------------------------------------------
(* Backoff *)

(* The request of job j's step: where it is sent and what it carries. *)
RequestOf(p, l) == [path |-> p, cursor |-> l.reqCursor, missing |-> l.missing, i |-> l.i]

(* The wait, in ms, after a 429 answer to attempt n. *)
BackoffMs(outcome, n) ==
  IF outcome = "rateAdvised" THEN RetryAfterSeconds * 1000
  ELSE IF outcome = "rateLong" THEN LongRetryAfterSeconds * 1000
  ELSE IF n = 1 THEN 2000 ELSE 4000

(* C32: a 429 answer to attempt n < MAX_RETRIES puts the request to sleep *)
(* for the Retry-After seconds when the header is a number, otherwise for   *)
(* 2^n seconds (2 s, then 4 s), leaving the job as it is; no attempt is in  *)
(* flight during the sleep; and attempt n + 1 starts only when the sleep is *)
(* over, for the same path and payload.                                    *)
C32_BackoffThenSameRequest ==
  [][\A j \in created :
       /\ (ev'.op = "call" /\ ev'.id = j) => loc[j].wakeAt = 0
       /\ (ev'.op = "call" /\ ev'.id = j /\ ev'.outcome \in RateOutcomes
             /\ loc[j].attempt < MAX_RETRIES) =>
            /\ loc'[j].wakeAt = now + BackoffMs(ev'.outcome, loc[j].attempt)
            /\ loc'[j].attempt = loc[j].attempt
            /\ RequestOf(pc'[j], loc'[j]) = RequestOf(pc[j], loc[j])
            /\ job'[j] = job[j]
       /\ (ev'.op = "retry" /\ ev'.id = j) =>
            /\ loc[j].wakeAt # 0 /\ now >= loc[j].wakeAt
            /\ loc'[j].attempt = loc[j].attempt + 1
            /\ loc'[j].wakeAt = 0 /\ loc'[j].callStart = now
            /\ RequestOf(pc'[j], loc'[j]) = RequestOf(pc[j], loc[j])
            /\ job'[j] = job[j]
       /\ (pc[j] # "idle" /\ pc'[j] = pc[j] /\ loc'[j].attempt > loc[j].attempt)
            => ev'.op = "retry"]_vars

(* The third attempt of a contacts request has just started, four seconds *)
(* after the 429 answer to the second.                                     *)
C32_Witness ==
  /\ ev.op = "retry" /\ pc[ev.id] = "contacts"
  /\ loc[ev.id].attempt = MAX_RETRIES
  /\ loc[ev.id].callStart = now
  /\ hist[ev.id].rates = 2
  /\ now = 6000

(* The second attempt of a request has just started, RetryAfterSeconds    *)
(* after a 429 answer that advised them.                                   *)
C32_WitnessAdvised ==
  /\ ev.op = "retry" /\ pc[ev.id] # "idle"
  /\ loc[ev.id].attempt = 2
  /\ now = RetryAfterSeconds * 1000

----------------------------------------------------------------------------
(* Aggregates *)

(* C33: in every state of every job the keys of the member-aggregate map *)
(* are exactly the seen ids, and no id is seen twice.                      *)
C33_AggKeysAreSeenIds ==
  \A j \in created :
    /\ DOMAIN job[j].memberAgg = Range(job[j].memberIds)
    /\ Cardinality(Range(job[j].memberIds)) = Len(job[j].memberIds)

(* A job that folded a page in which one member has two sessions and      *)
(* another conversation is no session.                                     *)
C33_Witness ==
  /\ world = WorldSmall
  /\ job["j1"].pagesFetched = 1
  /\ job["j1"].sessionsCount = 3
  /\ job["j1"].memberIds = <<1, 2>>
  /\ job["j1"].memberAgg[1].channels = {"Phone", "Email"}

----------------------------------------------------------------------------
(* Paging *)

(* This transition is the arrival, in a step of job j, of a conversations *)
(* page that carries no next cursor.                                       *)
LastPageArrives(j) ==
  /\ ev'.op = "call" /\ ev'.id = j /\ ev'.outcome = "ok"
  /\ pc[j] = "conv"
  /\ SearchPage(world, loc[j].reqCursor).nextCursor = NoCursor

(* The stored resume cursor is absent once the paging is over. *)
CursorGoneAfterPaging(jr) ==
  (jr.phase \in {"contacts", "finalize"} \/ jr.status = "complete")
     => jr.startingAfter = NoCursor

(* C34: the phase leaves conversations only in a step that received a     *)
(* page with no next cursor, and a job whose phase is contacts or finalize, *)
(* or whose status is complete, has no stored resume cursor.                *)
C34_LeavesConversationsOnLastPage ==
  [][\A j \in created :
       /\ (job[j].phase = "conversations" /\ job'[j].phase # "conversations")
            => LastPageArrives(j)
       /\ CursorGoneAfterPaging(job'[j])]_vars

(* C34, amended: the phase is set to contacts only in a step that         *)
(* received a page with no next cursor; the phase leaves conversations in   *)
(* such a step, or for complete when the job is cancelled or a step fails;  *)
(* and a job whose phase is contacts or finalize, or whose status is        *)
(* complete, has no stored resume cursor.                                   *)
C34_AdvancesOnLastPage ==
  [][\A j \in created :
       /\ (job'[j].phase = "contacts" /\ job[j].phase # "contacts")
            => LastPageArrives(j)
       /\ (job[j].phase = "conversations" /\ job'[j].phase # "conversations")
            => \/ LastPageArrives(j)
               \/ /\ ev'.op = "cancel" /\ ev'.id = j
                  /\ job'[j].status = "cancelled" /\ job'[j].phase = "complete"
               \/ /\ ev'.op = "call" /\ ev'.id = j /\ ev'.outcome # "ok"
                  /\ job'[j].status = "error" /\ job'[j].phase = "complete"
       /\ CursorGoneAfterPaging(job'[j])]_vars

(* The second and last page of a chain has just arrived: the job is in    *)
(* the contacts phase, without a cursor, and asks for its first contacts.  *)
C34_Witness ==
  /\ world = WorldEmptyPage
  /\ ev.op = "call" /\ ev.outcome = "ok"
  /\ job[ev.id].pagesFetched = 2
  /\ job[ev.id].phase = "contacts" /\ job[ev.id].status = "running"
  /\ job[ev.id].startingAfter = NoCursor
  /\ pc[ev.id] = "contacts"

(* This transition is the arrival, in a step of job j, of a conversations *)
(* page with no conversation and a next cursor.                            *)
EmptyPageArrives(j) ==
  /\ ev'.op = "call" /\ ev'.id = j /\ ev'.outcome = "ok"
  /\ pc[j] = "conv"
  /\ SearchPage(world, loc[j].reqCursor).conversations = <<>>
  /\ SearchPage(world, loc[j].reqCursor).nextCursor # NoCursor

(* A step of job j sends its first conversations request in this         *)
(* transition: at its start, or when its admin warm-up has returned.       *)
FirstPageRequest(j) ==
  /\ ev'.id = j /\ pc'[j] = "conv"
  /\ \/ ev'.op = "step"
     \/ ev'.op = "call" /\ pc[j] = "admins"

(* With the arrival of an empty page that carries a cursor the step       *)
(* stores the cursor, counts the page and returns without another call.    *)
EmptyPageStored(j) ==
  /\ job'[j].startingAfter = SearchPage(world, loc[j].reqCursor).nextCursor
  /\ job'[j].pagesFetched = job[j].pagesFetched + 1
  /\ pc'[j] = "idle"
  /\ ev'.snap.cursor = job'[j].startingAfter /\ ~ev'.snap.done

(* The first conversations request of a step asks for the stored cursor. *)
ResumesFromCursor(j) ==
  FirstPageRequest(j) =>
    /\ loc'[j].reqCursor = job[j].startingAfter
    /\ job'[j].startingAfter = job[j].startingAfter

C35_WitnessResumed ==
  /\ world = WorldEmptyPage
  /\ ev.op = "step"
  /\ pc[ev.id] = "conv" /\ loc[ev.id].reqCursor = 2
  /\ job[ev.id].pagesFetched = 1

----------------------------------------------------------------------------
(* The polling loop of the page *)

(* The step requests for job id that are sent and not yet answered. *)
StepsOut(c, id) == {q \in c.net : q.op = "step" /\ q.id = id}

(* The step requests sent in this transition. *)
StepsSent == {q \in client'.net \ client.net : q.op = "step"}

(* C36: no job id ever has two step requests outstanding; a step is sent  *)
(* only when no step for that job is outstanding, by a run that is not      *)
(* aborted, for the job that run created; and a call of loadReport aborts   *)
(* the run registered before it.                                           *)
C36_OneStepOutstanding ==
  [][/\ \A id \in JobIds : Cardinality(StepsOut(client', id)) <= 1
     /\ \A q \in StepsSent :
          /\ StepsOut(client, q.id) = {}
          /\ ~client'.run[q.run].aborted
          /\ q.id = client'.run[q.run].myJobId
          /\ q.id = JobOf(q.run) /\ q.id \in client'.made
     /\ \A r \in Runs :
          (client.run[r].pos = "none" /\ client'.run[r].pos # "none") =>
             /\ client.runController # "" => client'.run[client.runController].aborted
             /\ StepsSent = {}]_vars

(* The second run polls its own job while the last step of the first run, *)
(* which it aborted, is still unanswered.                                  *)
C36_Witness ==
  /\ client.run["r1"].aborted /\ client.run["r1"].pos = "done"
  /\ StepsOut(client, "j1") # {} /\ StepsOut(client, "j2") # {}
  /\ client.run["r2"].pos = "step" /\ client.run["r2"].polls = 1
  /\ \A q \in StepsOut(client, "j1") : q.run = "r1"
  /\ \A q \in StepsOut(client, "j2") : q.run = "r2"

C39_WitnessReturned ==
  /\ client.run["r2"].pos = "done" /\ client.run["r2"].result = "returned"
  /\ client.run["r2"].pages = MaxMemberPages - 1
  /\ [run |-> "r2", id |-> "j2"] \in client.cleaned


----------------------------------------------------------------------------
(* A step of job j returns to its caller in this transition: at the       *)
(* answer of the call it was suspended on, or without any outbound call.   *)
StepReturns(j) ==
  /\ pc'[j] = "idle"
  /\ \/ pc[j] # "idle"
     \/ ev'.op = "step" /\ ev'.id = j /\ ev'.outcome = "" /\ ev'.snap.code = 200

(* The step that returns fetched a page of conversations or a batch of    *)
(* contacts, or it finalized the job.                                      *)
StepProgressed(j) ==
  \/ job'[j].pagesFetched > job[j].pagesFetched
  \/ pc[j] = "contacts" /\ ev'.outcome = "ok"
  \/ job'[j].status = "complete"

(* C37: when the remote API answers every call successfully within its   *)
(* timeout and the client calls step within the job TTL of the previous    *)
(* step, every step fetches at least one page or one contacts batch, or    *)
(* finalizes (and so the job completes after finitely many steps).         *)
C37_EveryStepProgresses ==
  [][\A j \in JobIds : StepReturns(j) => StepProgressed(j)]_vars

(* Two steps in a row have returned without a page, a batch or a result:  *)
(* one such step ends SlowCallMs after it began, and the second one begins *)
(* when the admin map of the first is ADMIN_CACHE_TTL_MS old.              *)
C37_NoPageAfterTwoSteps ==
  ~(/\ "j1" \in jobs
    /\ pc["j1"] = "idle"
    /\ job["j1"].status = "running"
    /\ job["j1"].phase = "conversations"
    /\ job["j1"].pagesFetched = 0
    /\ job["j1"].updatedAtMs >= ADMIN_CACHE_TTL_MS + 2 * SlowCallMs)


----------------------------------------------------------------------------
(* Removal during a step *)

(* Job j was created and is no longer in the registry. *)
Removed(j) == j \in created /\ j \notin jobs

(* The requests that look a job id up. *)
Lookups == {"step", "status"} \cup Views

(* C38: a job id that cleanup or the sweep has removed from the registry  *)
(* stays absent whatever happens next, the return of a step that was        *)
(* suspended at the removal included, and every later step, status and      *)
(* results request for the id is answered NotFound.                        *)
C38_RemovedStaysAbsent ==
  [][\A j \in JobIds : Removed(j) =>
       /\ j \notin jobs'
       /\ (ev'.id = j /\ ev'.op \in Lookups) => ev'.snap.code = 404]_vars

(* A step has just returned, having written its progress to the job, and  *)
(* the job was removed from the registry while the step was suspended.     *)
C38_Witness ==
  /\ ev.op = "call" /\ ev.id = "j1"
  /\ pc["j1"] = "idle"
  /\ Removed("j1")
  /\ job["j1"].updatedAtMs = now
  /\ job["j1"].pagesFetched > 0

(* The sweep of a status or results request removes a job whose step is   *)
(* asleep after a 429 answer.                                              *)
C38_WitnessSwept ==
  /\ ev.op \in {"status"} \cup Views
  /\ ev.outcome = "swept"
  /\ pc[ev.id] # "idle"
  /\ loc[ev.id].wakeAt > now

(* A step request for the id is answered NotFound after the orphaned step *)
(* has completed the job.                                                  *)
C38_WitnessLater ==
  /\ ev.op = "step" /\ ev.id = "j1"
  /\ ev.snap.code = 404
  /\ job["j1"].status = "complete"


----------------------------------------------------------------------------
(* The worker pool *)

(* The ids a call is asked for: the distinct non-empty ones. *)
Wanted(p) == Range(p.contactIds) \ {""}

Times(seq, x) == Cardinality({i \in 1 .. Len(seq) : seq[i] = x})

Pending(p) == {k \in Workers : p.worker[k].pos = "wait"}

C40_EachIdRequestedOnceForNumbers ==
  /\ \A id \in Range(pool.sent) : id \in Wanted(pool) /\ Times(pool.sent, id) = 1
  /\ (pool.pos = "returned" /\ pool.concurrency.kind # "nan")
       => Range(pool.sent) = Wanted(pool)

(* C40, second part as the code has it: at most max(1, floor(c)) requests *)
(* are in flight, 10 when no concurrency is given, none for NaN.           *)
C40_InFlightAtMostFloor ==
  LET c == pool.concurrency
      limit == IF c.kind = "absent" THEN DefaultConcurrency
               ELSE IF c.kind = "nan" THEN 0
               ELSE Max(1, c.n \div 2)
  IN Cardinality(Pending(pool)) <= limit

(* C40, third part: the map returned holds exactly the ids whose request  *)
(* succeeded.                                                              *)
C40_ResultIsSucceeded ==
  /\ pool.result \cap pool.failed = {}
  /\ pool.pos = "returned" => pool.result = Range(pool.sent) \ pool.failed

(* A call with concurrency 1.5, one worker, for a list of MaxIds entries  *)
(* that holds two ids has returned; the request for the first id failed,   *)
(* the second id was requested after that and its request succeeded.       *)
C40_Witness ==
  /\ pool.pos = "returned"
  /\ pool.concurrency = Halves(3)
  /\ Len(pool.ids) = 2
  /\ Len(pool.contactIds) = MaxIds
  /\ pool.failed = {pool.ids[1]}
  /\ pool.result = {pool.ids[2]}

====
